---- MODULE Spec2Model ----
(***************************************************************************)
(* State-machine model of the IFC viewer's resource lifecycle:             *)
(*   FragmentsService   (initialize, loadIfc, addFragmentsToScene,         *)
(*                       getModel, exportFragment, removeModel, dispose)   *)
(*   IfcViewerComponent (loadIfcFile, clearPreviousModel)                  *)
(* Every `await` on an external promise (worker fetch, loader setup,       *)
(* file.arrayBuffer, ifcLoader.load, model.dispose, model.getBuffer) is a  *)
(* point where other calls may interleave; code between two such points    *)
(* runs as one step (single-threaded event loop).                          *)
(***************************************************************************)
EXTENDS Integers, Sequences, FiniteSets, TLC

\* ---------------------------------------------------------------- bounds
MaxLoads == 2      \* loadIfcFile calls in one behaviour of the viewer
MaxDirectLoads == 1 \* loadIfc calls in one behaviour of the service used as a library
MaxFrags == 2      \* fragments (model.items entries) per model loaded through loadIfc
MaxViewerFrags == 1 \* fragments per model loaded through the viewer
MaxEngines == 2    \* OBC.Components instances created in one behaviour
MaxInits == 2      \* concurrent initialize() callers
MaxBytes == 1      \* length of the buffer returned by model.getBuffer()
MaxFilterFrags == 2 \* fragments per model handed to the IFC class filter
MaxStatFrags == 2  \* fragments per model whose statistics are taken
MaxExtraMeshes == 1 \* meshes below model.object that belong to no fragment
MaxMaterialFrags == 2 \* fragments per model whose materials are fixed
MaxErrors == 52    \* handleError calls in one behaviour of the error handler
MaxAttachFrags == 2 \* fragments per model handed to addFragmentsToScene
MaxSnapshotFrags == 2 \* fragments per model whose classes are handed to a caller

ModelIds == {"a", "b"}
Loads == 1..MaxLoads
InitSlots == 1..MaxInits

Null == 0          \* null reference (components, ifcLoader, fragmentsManager)
NoId == "-"        \* undefined string (fragmentUuid, currentModelId)
NoClass == "-"     \* a metadata field that is missing or holds no Ifc class name

\* ------------------------------------------------------------- messages
\* An error message is a sequence of words; a template string concatenates.
Contains(msg, phrase) ==
  \E k \in 0..(Len(msg) - Len(phrase)) :
     \A j \in 1..Len(phrase) : msg[k + j] = phrase[j]

MsgSceneCamera == <<"Scene", "and", "camera", "are", "required", "for", "initialization">>
MsgWorker == <<"Cannot", "access", "worker", "file">>
MsgManagerNull == <<"Cannot", "read", "properties", "of", "null">>
MsgManagerFlag == <<"FragmentsManager.init()", "did", "not", "set", "initialized", "flag">>
MsgComponentsNull == <<"Components", "not", "initialized">>
MsgEngine == <<"engine", "failure">>
MsgNotInitialized ==
  <<"FragmentsService", "not", "initialized", ".", "Call", "initialize()", "first", ".">>
MsgEmptyBuffer == <<"Invalid", "buffer:", "empty", "or", "null">>
MsgInvalidName == <<"Invalid", "model", "name">>
MsgNoModel == <<"Failed", "to", "load", "IFC", "model:", "model", "is", "null", "or", "has", "no", "ID">>
MsgSceneNull == <<"Scene", "is", "null">>
MsgRetrieve == <<"Failed", "to", "retrieve", "loaded", "model", "from", "service">>
MsgUnknown == <<"Unknown", "error">>
MsgNone == <<>>

\* `${error}` of an Error object prints "Error: <message>"
ErrorToString(msg) == <<"Error:">> \o msg
InitFailure(msg) == <<"Failed", "to", "initialize", "FragmentsService:">> \o ErrorToString(msg)
LoadFailure(msg) == <<"Failed", "to", "load", "IFC", "file:">> \o ErrorToString(msg)
NotFound(id) == <<"Model", "with", "ID", id, "not", "found">>

\* ---------------------------------------------------------------- state
VARIABLES
  initialized,      \* FragmentsService.initialized
  components,       \* FragmentsService.components      (engine instance or Null)
  fragmentsManager, \* FragmentsService.fragmentsManager (engine it belongs to or Null)
  ifcLoader,        \* FragmentsService.ifcLoader        (engine it belongs to or Null)
  scene,            \* FragmentsService.scene  # null
  camera,           \* FragmentsService.camera # null
  loadedModels,     \* FragmentsService.loadedModels: modelId -> model instance
  engineList,       \* per engine, FragmentsManager.list: modelId -> model instance
  model,            \* the FragmentsModel objects the engine has produced
  init,             \* position of each initialize() call
  load,             \* position of each loadIfc / loadIfcFile call
  rm,               \* the direct removeModel() call awaiting model.dispose()
  disp,             \* the dispose() call awaiting its removeModel() calls
  exp,              \* the exportFragment() call awaiting model.getBuffer()
  currentModel,     \* IfcViewerComponent.currentModel
  isLoading,        \* IfcViewerComponent.isLoading
  errorMessage,     \* IfcViewerComponent.errorMessage
  filterModelId,    \* IfcFilterService.currentModelId
  ifcClasses,       \* IfcFilterService.ifcClasses: class name -> IfcClassInfo
  fragmentClassMap, \* IfcFilterService.fragmentClassMap: fragmentId -> class name
  handed,           \* the class list or class map a caller of the filter holds on to
  enginesCreated,   \* number of `new OBC.Components()` executed
  initCompleted,    \* initialize() calls that ran to completion since the last dispose()
  errors,           \* ErrorHandlerService.errors$ value, followed in SpecErrors
  errorCount,       \* ids handed out by ErrorHandlerService.generateErrorId
  ret               \* what the step just taken returned to its caller

serviceVars == <<initialized, components, fragmentsManager, ifcLoader, scene, camera,
                 loadedModels, engineList, model>>
callVars == <<init, load, rm, disp, exp>>
filterVars == <<filterModelId, ifcClasses, fragmentClassMap, handed>>
viewerVars == <<currentModel, isLoading, errorMessage, filterVars>>
ghostVars == <<enginesCreated, initCompleted>>
errorVars == <<errors, errorCount>>
vars == <<serviceVars, callVars, viewerVars, ghostVars, errorVars, ret>>

\* a FragmentsModel: per fragment (model.items entry) frags tells where its
\* mesh hangs, vis is mesh.visible and meta the fields a class name is read from
NoModel == [modelId |-> NoId, object |-> "absent", frags |-> <<>>, vis |-> <<>>,
            meta |-> <<>>, mesh |-> <<>>, extra |-> <<>>,
            hasDispose |-> FALSE, engine |-> Null, disposed |-> FALSE]
\* a removeModel / exportFragment call waiting for the model; trip names the
\* loadIfc call that had just resolved with this id when removeModel was called
NoCall == [id |-> NoId, inst |-> 0, trip |-> 0]
NoData == -1
EmptyMap == [x \in {} |-> 0]
\* classes is the IfcClassInfo list a filter call returned, newMap tells that
\* the ifcClasses signal was set to a new Map, written names the meshes whose
\* visible flag was assigned (model instance, fragment), pre holds the class
\* map and the mesh visibility that a toggleClassVisibility, showAllClasses or
\* hideAllClasses call which changed something started from, afterExtract
\* tells that the calls since the last extractClasses that returned the classes
\* of its model were visibility calls only
NoRet == [op |-> "none", who |-> 0, id |-> NoId, kind |-> "none", value |-> "-",
          msg |-> MsgNone, reported |-> {}, dataLength |-> NoData, fileSize |-> NoData,
          trip |-> 0, classes |-> EmptyMap, newMap |-> FALSE, written |-> {},
          pre |-> [classes |-> EmptyMap, vis |-> <<>>],
          fixed |-> 0, errorId |-> 0, afterExtract |-> FALSE,
          stats |-> [isNull |-> TRUE, meshCount |-> 0, vertexCount |-> 0, faceCount |-> 0,
                     fragmentCount |-> 0, boundingBox |-> FALSE, memoryUsage |-> 0]]
\* what a caller holds: nothing, the array extractClasses returned ("list") or
\* the Map read from the ifcClasses signal ("map"). classes is its content as
\* the caller sees it now, isCurrent tells that the Map is still the value of
\* the signal, and shared names the classes whose IfcClassInfo object in it is
\* the very object the signal's Map holds for that class
NoHanded == [kind |-> "none", classes |-> EmptyMap, isCurrent |-> FALSE, shared |-> {}]
\* IfcViewerComponent.currentModel = null
NoCurrent == [status |-> "none", owner |-> 0, progress |-> 0, fragmentUuid |-> NoId,
              loadedAt |-> FALSE, stats |-> FALSE, error |-> FALSE]
\* a load call: where it is, who made it ("viewer" = loadIfcFile, "direct" =
\* loadIfc), its locals (name, the loader it awaits, the model being cleared,
\* uuid, stats), the model that was active when it was requested, whether
\* another loadIfcFile call was in progress when it was requested, and whether
\* dispose() was called on the initialized service while it awaited the engine
IdleLoad == [pc |-> "idle", via |-> "-", nameEmpty |-> FALSE, loader |-> Null,
             rmId |-> NoId, rmInst |-> 0, uuid |-> NoId, stats |-> FALSE,
             prevId |-> NoId, prevInst |-> 0, before |-> 0, prog |-> <<>>,
             overlaps |-> FALSE, raced |-> FALSE]
DoneLoad == [IdleLoad EXCEPT !.pc = "done"]

\* one call of the onProgress callback of loadIfc: the value it gets and what
\* the call has done by then (ifcLoader.load called, addFragmentsToScene
\* returned, loadedModels.set done)
ProgressCall(value, engineCalled, added, cached) ==
  [value |-> value, engineCalled |-> engineCalled, added |-> added, cached |-> cached]

Resolved(op, who, id, value, reported) ==
  [NoRet EXCEPT !.op = op, !.who = who, !.id = id, !.kind = "resolved",
                 !.value = value, !.reported = reported]
Rejected(op, who, id, msg, reported) ==
  [NoRet EXCEPT !.op = op, !.who = who, !.id = id, !.kind = "rejected",
                 !.msg = msg, !.reported = reported]

\* ErrorHandlerService.handleError(error, severity, {operation}) as the pair it stores
Report(operation, severity) == <<operation, severity>>

Init ==
  /\ initialized = FALSE
  /\ components = Null
  /\ fragmentsManager = Null
  /\ ifcLoader = Null
  /\ scene = FALSE
  /\ camera = FALSE
  /\ loadedModels = EmptyMap
  /\ engineList = [e \in 1..MaxEngines |-> EmptyMap]
  /\ model = [l \in Loads |-> NoModel]
  /\ init = [i \in InitSlots |-> "idle"]
  /\ load = [l \in Loads |-> IdleLoad]
  /\ rm = NoCall
  /\ disp = [pc |-> "idle", pending |-> {}]
  /\ exp = NoCall
  /\ currentModel = NoCurrent
  /\ isLoading = FALSE
  /\ errorMessage = FALSE
  /\ filterModelId = NoId
  /\ ifcClasses = EmptyMap
  /\ fragmentClassMap = EmptyMap
  /\ handed = NoHanded
  /\ enginesCreated = 0
  /\ initCompleted = 0
  /\ errors = <<>>
  /\ errorCount = 0
  /\ ret = NoRet

\* ------------------------------------------------- FragmentsService.initialize
InitReject(i, msg) ==
  /\ init' = [init EXCEPT ![i] = "idle"]
  /\ ret' = Rejected("initialize", i, NoId, InitFailure(msg),
                     {Report("initialize", "critical")})

\* initialize(scene, camera) up to `await fetch(workerUrl)`
InitializeCall(i, sceneArg, cameraArg) ==
  /\ init[i] = "idle"
  /\ IF initialized
       THEN /\ ret' = Resolved("initialize", i, NoId, "noop", {})
            /\ UNCHANGED <<serviceVars, callVars, ghostVars, errorVars>>
       ELSE IF ~sceneArg \/ ~cameraArg
         THEN /\ InitReject(i, MsgSceneCamera)
              /\ UNCHANGED <<serviceVars, load, rm, disp, exp, ghostVars, errorVars>>
         ELSE /\ enginesCreated < MaxEngines
              /\ scene' = TRUE
              /\ camera' = TRUE
              /\ enginesCreated' = enginesCreated + 1
              /\ components' = enginesCreated + 1
              /\ fragmentsManager' = enginesCreated + 1
              /\ init' = [init EXCEPT ![i] = "fetch"]
              /\ ret' = NoRet
              /\ UNCHANGED <<initialized, ifcLoader, loadedModels, engineList, model,
                             load, rm, disp, exp, initCompleted, errorVars>>
  /\ UNCHANGED viewerVars

\* the worker HEAD request settles: rest of initializeFragmentsManager, then
\* initializeIfcLoader up to `await this.ifcLoader.setup(...)`
InitFetchDone(i, fetched, flagSet) ==
  /\ init[i] = "fetch"
  /\ IF ~fetched THEN
       /\ InitReject(i, MsgWorker)
       /\ UNCHANGED ifcLoader
     ELSE IF fragmentsManager = Null THEN
       /\ InitReject(i, MsgManagerNull)
       /\ UNCHANGED ifcLoader
     ELSE IF ~flagSet THEN
       /\ InitReject(i, MsgManagerFlag)
       /\ UNCHANGED ifcLoader
     ELSE IF components = Null THEN
       /\ InitReject(i, MsgComponentsNull)
       /\ UNCHANGED ifcLoader
     ELSE
       /\ ifcLoader' = components
       /\ init' = [init EXCEPT ![i] = "setup"]
       /\ ret' = NoRet
  /\ UNCHANGED <<initialized, components, fragmentsManager, scene, camera,
                 loadedModels, engineList, model, load, rm, disp, exp,
                 viewerVars, ghostVars, errorVars>>

\* ifcLoader.setup() settles
InitSetupDone(i, ok) ==
  /\ init[i] = "setup"
  /\ IF ok
       THEN /\ initialized' = TRUE
            /\ initCompleted' = initCompleted + 1
            /\ init' = [init EXCEPT ![i] = "idle"]
            /\ ret' = Resolved("initialize", i, NoId, "initialized", {})
       ELSE /\ InitReject(i, MsgEngine)
            /\ UNCHANGED <<initialized, initCompleted>>
  /\ UNCHANGED <<components, fragmentsManager, ifcLoader, scene, camera,
                 loadedModels, engineList, model, load, rm, disp, exp,
                 viewerVars, enginesCreated, errorVars>>

\* ------------------------------------------------------------ model objects
\* A drawable (model.object or fragment.mesh) is described by where it hangs:
\*   "absent" no object / no mesh, "none" no parent, "scene" child of the
\*   viewer's scene, "other" child of a node that is not the scene.
FragStates == {"none", "other", "absent"}
FragRank(st) == IF st = "none" THEN 1 ELSE IF st = "other" THEN 2 ELSE 3

\* model.items with at most n fragments; items is a Map, so two item lists
\* that differ only in the order of their fragments are the same input
FragSeqs(n) ==
  {f \in UNION {[1..k -> FragStates] : k \in 0..n} :
     \A i \in 1..(Len(f) - 1) : FragRank(f[i]) <= FragRank(f[i + 1])}

\* fragment metadata in which no strategy of the class filter finds a class:
\* fragment.name, fragment.id, mesh.userData.ifcClass, mesh.userData.type,
\* mesh.userData.name, the first value of fragment.types, the first key of
\* fragment.fragments and the fragment's key in model.items; a field holds the
\* Ifc class name that /Ifc[A-Z][a-zA-Z]*/ finds in it, or NoClass
NoMeta == [name |-> NoClass, id |-> NoClass, ifcClass |-> NoClass, userType |-> NoClass,
           userName |-> NoClass, types |-> NoClass, fragments |-> NoClass,
           fragmentId |-> NoClass]

\* what the statistics read from a mesh: whether it has a geometry, the count
\* of its position attribute and of its index (NoData = it has none), whether
\* it is an InstancedMesh, and whether it is a descendant of model.object;
\* materials is mesh.material as a list, visible is mesh.visible of a mesh
\* that belongs to no fragment (a fragment's mesh.visible is vis[k]), and
\* frustumCulled is mesh.frustumCulled
NoGeometry == [geometry |-> FALSE, positions |-> NoData, index |-> NoData,
               instanced |-> FALSE, inObject |-> FALSE, materials |-> <<>>,
               visible |-> TRUE, frustumCulled |-> TRUE]
PlainMesh == [NoGeometry EXCEPT !.geometry = TRUE, !.positions = 4]

\* the models ifcLoader.load() can produce, with at most n fragments; their
\* meshes are visible (the default of THREE.Object3D) and carry no class name
EngineModels(n) ==
  {[modelId |-> id, object |-> o, frags |-> f,
    vis |-> [k \in DOMAIN f |-> f[k] # "absent"],
    meta |-> [k \in DOMAIN f |-> NoMeta],
    mesh |-> [k \in DOMAIN f |-> IF f[k] = "absent" THEN NoGeometry ELSE PlainMesh],
    extra |-> <<>>,
    hasDispose |-> d] :
     id \in ModelIds, o \in {"absent", "none", "other"}, f \in FragSeqs(n), d \in BOOLEAN}

InScene(mo) ==
  mo.modelId # NoId /\ (mo.object = "scene" \/ \E k \in DOMAIN mo.frags : mo.frags[k] = "scene")

\* number of the model's drawables that are children of the scene
AttachedCount(mo) ==
  IF mo.modelId = NoId THEN 0
  ELSE (IF mo.object = "scene" THEN 1 ELSE 0)
       + Cardinality({k \in DOMAIN mo.frags : mo.frags[k] = "scene"})

RECURSIVE SumAttached(_)
SumAttached(S) ==
  IF S = {} THEN 0
  ELSE LET l == CHOOSE x \in S : TRUE IN AttachedCount(model[l]) + SumAttached(S \ {l})

\* scene.children.length, counting only the drawables of loaded models
SceneCount == SumAttached(Loads)

\* addFragmentsToScene without `fragment.mesh.visible = true`
AddFragmentsToSceneKeepsVisible(mo) ==
  IF Len(mo.frags) > 0
    THEN [mo EXCEPT !.frags = [k \in DOMAIN mo.frags |->
                                 IF mo.frags[k] = "none" THEN "scene" ELSE mo.frags[k]],
                    !.mesh = [k \in DOMAIN mo.frags |->
                                IF mo.frags[k] = "none"
                                  THEN [mo.mesh[k] EXCEPT !.frustumCulled = TRUE]
                                  ELSE mo.mesh[k]]]
    ELSE IF mo.object = "none" THEN [mo EXCEPT !.object = "scene"] ELSE mo

\* FragmentsService.addFragmentsToScene (scene # null)
AddFragmentsToScene(mo) ==
  IF Len(mo.frags) > 0
    THEN [mo EXCEPT !.frags = [k \in DOMAIN mo.frags |->
                                 IF mo.frags[k] = "none" THEN "scene" ELSE mo.frags[k]],
                    !.vis = [k \in DOMAIN mo.frags |->
                               IF mo.frags[k] = "none" THEN TRUE ELSE mo.vis[k]],
                    !.mesh = [k \in DOMAIN mo.frags |->
                                IF mo.frags[k] = "none"
                                  THEN [mo.mesh[k] EXCEPT !.frustumCulled = TRUE]
                                  ELSE mo.mesh[k]]]
    ELSE IF mo.object = "none" THEN [mo EXCEPT !.object = "scene"] ELSE mo

\* the part of removeModel that takes the model out of the scene graph
Unparent(st) == IF st \in {"scene", "other"} THEN "none" ELSE st
DetachFromParents(mo) ==
  [mo EXCEPT !.object = Unparent(mo.object),
             !.frags = [k \in DOMAIN mo.frags |-> Unparent(mo.frags[k])]]

\* FragmentsService.getModel: the model found, 0 for undefined
GetModel(id) ==
  IF id \in DOMAIN loadedModels THEN loadedModels[id]
  ELSE IF fragmentsManager # Null /\ id \in DOMAIN engineList[fragmentsManager]
    THEN engineList[fragmentsManager][id]
    ELSE 0

\* FragmentsService.getModel: loadedModels after the lookup (a model found in
\* FragmentsManager.list is cached)
CacheAfterGet(id) ==
  IF id \notin DOMAIN loadedModels /\ GetModel(id) # 0
    THEN loadedModels @@ (id :> GetModel(id))
    ELSE loadedModels

MapDelete(map, id) == [x \in DOMAIN map \ {id} |-> map[x]]
MapSet(map, id, v) == [x \in DOMAIN map \cup {id} |-> IF x = id THEN v ELSE map[x]]

\* FragmentsService.getAllModels
GetAllModels == {loadedModels[id] : id \in DOMAIN loadedModels}

\* the engine's side of a successful model.dispose(): the model leaves the
\* list of the FragmentsManager that loaded it
EngineDisposed(lists, m) ==
  LET e == model[m].engine
      id == model[m].modelId IN
  IF e # Null /\ id \in DOMAIN lists[e] /\ lists[e][id] = m
    THEN [lists EXCEPT ![e] = MapDelete(lists[e], id)]
    ELSE lists

\* the sum of a sequence of numbers
RECURSIVE SumSeq(_)
SumSeq(q) == IF q = <<>> THEN 0 ELSE Head(q) + SumSeq(Tail(q))

\* ------------------------------------------------------------ fixMaterials
\* a THREE.Material as fixMaterials reads it; opacity in percent
DefaultMaterial == [visible |-> TRUE, side |-> "front", transparent |-> FALSE, opacity |-> 100]

NeedsFix(mt) ==
  \/ ~mt.visible
  \/ mt.side = "front"
  \/ (mt.transparent /\ mt.opacity = 0)

\* the body of materials.forEach for one material
FixMaterial(mt) ==
  IF ~NeedsFix(mt) THEN mt
  ELSE IF mt.transparent /\ mt.opacity = 0
    THEN [visible |-> TRUE, side |-> "double", transparent |-> FALSE, opacity |-> 100]
    ELSE [mt EXCEPT !.visible = TRUE, !.side = "double"]

\* the meshes of a model that object.traverse reaches from the scene: the
\* fragment meshes added to the scene, and everything below a model.object
\* that was added to it
FragmentInScene(mo, k) ==
  mo.frags[k] = "scene" \/ (mo.object = "scene" /\ mo.mesh[k].inObject)

\* fixMaterials(scene) on one model
FixMaterialsOf(mo) ==
  [mo EXCEPT
     !.mesh = [k \in DOMAIN mo.mesh |->
                 IF FragmentInScene(mo, k)
                   THEN [mo.mesh[k] EXCEPT !.materials =
                           [i \in DOMAIN mo.mesh[k].materials |->
                              FixMaterial(mo.mesh[k].materials[i])]]
                   ELSE mo.mesh[k]],
     !.vis = [k \in DOMAIN mo.vis |-> IF FragmentInScene(mo, k) THEN TRUE ELSE mo.vis[k]],
     !.extra = [k \in DOMAIN mo.extra |->
                  IF mo.object = "scene"
                    THEN [mo.extra[k] EXCEPT
                            !.visible = TRUE,
                            !.materials = [i \in DOMAIN mo.extra[k].materials |->
                                             FixMaterial(mo.extra[k].materials[i])]]
                    ELSE mo.extra[k]]]

FixMaterials(mods) == [l \in DOMAIN mods |-> FixMaterialsOf(mods[l])]

\* the number fixMaterials returns for one mesh
FixedInMesh(materials, visible) ==
  Cardinality({i \in DOMAIN materials : NeedsFix(materials[i])})
  + (IF visible THEN 0 ELSE 1)

FixedCount(mods) ==
  SumSeq([l \in DOMAIN mods |->
    SumSeq([k \in DOMAIN mods[l].mesh |->
              IF FragmentInScene(mods[l], k)
                THEN FixedInMesh(mods[l].mesh[k].materials, mods[l].vis[k]) ELSE 0])
    + SumSeq([k \in DOMAIN mods[l].extra |->
                IF mods[l].object = "scene"
                  THEN FixedInMesh(mods[l].extra[k].materials, mods[l].extra[k].visible)
                  ELSE 0])])

\* ------------------------------------------------------- IfcFilterService
ClassNames == {"IfcWall", "IfcSpace", "IfcElement"}

\* extractIfcClassFromFragment without its final `return 'IfcElement'`
ExtractIfcClassFromFragmentNoDefault(mo, k) ==
  LET f == mo.meta[k] IN
  IF f.name # NoClass THEN f.name
  ELSE IF f.id # NoClass THEN f.id
  ELSE IF mo.frags[k] # "absent" /\ f.ifcClass # NoClass THEN f.ifcClass
  ELSE IF mo.frags[k] # "absent" /\ f.userType # NoClass THEN f.userType
  ELSE IF mo.frags[k] # "absent" /\ f.userName # NoClass THEN f.userName
  ELSE IF f.types # NoClass THEN f.types
  ELSE IF f.fragments # NoClass THEN f.fragments
  ELSE f.fragmentId

\* IfcFilterService.extractIfcClassFromFragment for fragment k of model mo: the
\* first field that holds an Ifc class name wins, in the order fragment.name,
\* fragment.id, mesh.userData.ifcClass, mesh.userData.type, mesh.userData.name,
\* fragment.types, fragment.fragments, fragmentId; otherwise "IfcElement"
ExtractIfcClassFromFragment(mo, k) ==
  LET f == mo.meta[k] IN
  IF f.name # NoClass THEN f.name
  ELSE IF f.id # NoClass THEN f.id
  ELSE IF mo.frags[k] # "absent" /\ f.ifcClass # NoClass THEN f.ifcClass
  ELSE IF mo.frags[k] # "absent" /\ f.userType # NoClass THEN f.userType
  ELSE IF mo.frags[k] # "absent" /\ f.userName # NoClass THEN f.userName
  ELSE IF f.types # NoClass THEN f.types
  ELSE IF f.fragments # NoClass THEN f.fragments
  ELSE IF f.fragmentId # NoClass THEN f.fragmentId
  ELSE "IfcElement"

\* IfcFilterService.getClassColor
GetClassColor(className) ==
  IF className = "IfcWall" THEN "#FF6B6B"
  ELSE IF className = "IfcSpace" THEN "#FFAAA5"
  ELSE "#7F8C8D"

\* the fragmentClassMap extractClasses builds for model mo
FragmentClasses(mo) == [k \in DOMAIN mo.frags |-> ExtractIfcClassFromFragment(mo, k)]

\* the classMap extractClasses builds along with fragmentClassMap fcm
ClassMapOf(fcm) ==
  [c \in {fcm[k] : k \in DOMAIN fcm} |->
     [name |-> c, count |-> Cardinality({k \in DOMAIN fcm : fcm[k] = c}),
      visible |-> TRUE, color |-> GetClassColor(c)]]

\* the sum of the counts of the classes in S (the reduce of getFilterStats)
RECURSIVE SumCounts(_, _)
SumCounts(classes, S) ==
  IF S = {} THEN 0
  ELSE LET c == CHOOSE x \in S : TRUE IN classes[c].count + SumCounts(classes, S \ {c})

\* the computed signals visibleClassCount and totalClassCount
VisibleClassCount == Cardinality({c \in DOMAIN ifcClasses : ifcClasses[c].visible})
TotalClassCount == Cardinality(DOMAIN ifcClasses)

\* applyClassVisibility without the test `fragmentClass === className`
AppliedToEveryClass(className) ==
  IF filterModelId = NoId \/ GetModel(filterModelId) = 0 THEN {}
  ELSE LET m == GetModel(filterModelId) IN
       {<<m, k>> : k \in {j \in DOMAIN model[m].frags : model[m].frags[j] # "absent"}}

\* the meshes IfcFilterService.applyClassVisibility(className, ...) assigns
AppliedTo(className) ==
  IF filterModelId = NoId \/ GetModel(filterModelId) = 0 THEN {}
  ELSE LET m == GetModel(filterModelId) IN
       {<<m, k>> : k \in {j \in DOMAIN model[m].frags \cap DOMAIN fragmentClassMap :
                            fragmentClassMap[j] = className /\ model[m].frags[j] # "absent"}}

\* the models after `mesh.visible = visible` for the meshes in `written`
SetMeshVisible(mods, written, visible) ==
  [l \in DOMAIN mods |->
     [mods[l] EXCEPT !.vis = [k \in DOMAIN mods[l].vis |->
                                IF <<l, k>> \in written THEN visible ELSE mods[l].vis[k]]]]

\* IfcFilterService.clear
\* the classes whose visible flag is v (classes.filter of getFilterStats)
ClassesWith(v) == {c \in DOMAIN ifcClasses : ifcClasses[c].visible = v}

\* getFilterStats with visibleElements reduced over every class
GetFilterStatsOverAll ==
  [totalClasses |-> Cardinality(DOMAIN ifcClasses),
   visibleClasses |-> Cardinality(ClassesWith(TRUE)),
   hiddenClasses |-> Cardinality(ClassesWith(FALSE)),
   totalElements |-> SumCounts(ifcClasses, DOMAIN ifcClasses),
   visibleElements |-> SumCounts(ifcClasses, DOMAIN ifcClasses)]

\* getFilterStats()
GetFilterStats ==
  [totalClasses |-> Cardinality(DOMAIN ifcClasses),
   visibleClasses |-> Cardinality(ClassesWith(TRUE)),
   hiddenClasses |-> Cardinality(ClassesWith(FALSE)),
   totalElements |-> SumCounts(ifcClasses, DOMAIN ifcClasses),
   visibleElements |-> SumCounts(ifcClasses, ClassesWith(TRUE))]

\* what the caller holds once `this.ifcClasses.set(...)` has stored another
\* Map of other objects in the signal
AfterSignalSet(h) == [h EXCEPT !.isCurrent = FALSE, !.shared = {}]

\* what the caller holds after the update of toggleClassVisibility and
\* setClassVisibility: `classInfo.visible = visible` writes to the object the
\* signal's Map holds, `map.set(className, {...classInfo, visible})` puts a copy
\* into that Map, and `new Map(map)` becomes the value of the signal
AfterSignalUpdate(h, className, visible) ==
  IF h.kind = "none" \/ className \notin DOMAIN h.classes THEN h
  ELSE [h EXCEPT !.classes = IF className \in h.shared \/ h.isCurrent
                               THEN [h.classes EXCEPT ![className].visible = visible]
                               ELSE h.classes,
                 !.shared = IF h.isCurrent THEN h.shared \cup {className}
                            ELSE h.shared \ {className},
                 !.isCurrent = FALSE]

\* clear() without `this.ifcClasses.set(new Map())`
FilterClearKeepsClasses ==
  /\ filterModelId' = NoId
  /\ fragmentClassMap' = EmptyMap
  /\ ifcClasses' = ifcClasses
  /\ handed' = handed

\* clear()
FilterClear ==
  /\ filterModelId' = NoId
  /\ fragmentClassMap' = EmptyMap
  /\ ifcClasses' = EmptyMap
  /\ handed' = AfterSignalSet(handed)

\* IfcFilterService.extractClasses(id) when getModel(id) returns model mo
FilterExtract(id, mo) ==
  /\ filterModelId' = id
  /\ fragmentClassMap' = FragmentClasses(mo)
  /\ ifcClasses' = ClassMapOf(FragmentClasses(mo))
  /\ handed' = AfterSignalSet(handed)

\* ------------------------------------------------- FragmentsService.loadIfc
\* FragmentsService.ensureInitialized
EnsureInitialized == initialized /\ ifcLoader # Null /\ fragmentsManager # Null

\* loadIfc without its check of the model name
LoadIfcPrecheckNoNameCheck(bufEmpty, nameEmpty) ==
  IF ~(initialized /\ ifcLoader # Null /\ fragmentsManager # Null) THEN MsgNotInitialized
  ELSE IF bufEmpty THEN MsgEmptyBuffer
  ELSE MsgNone

\* the checks of loadIfc that throw before the try block; MsgNone when none does
LoadIfcPrecheck(bufEmpty, nameEmpty) ==
  IF ~EnsureInitialized THEN MsgNotInitialized
  ELSE IF bufEmpty THEN MsgEmptyBuffer
  ELSE IF nameEmpty THEN MsgInvalidName
  ELSE MsgNone

\* why the try block of loadIfc throws once ifcLoader.load() has settled with
\* `out`; MsgNone when it does not
LoadIfcThrows(out) ==
  IF out.kind = "reject" THEN MsgEngine
  ELSE IF out.kind \in {"null", "noid"} THEN MsgNoModel
  ELSE IF ~scene THEN MsgSceneNull
  ELSE MsgNone

\* the model object ifcLoader.load() hands back (kind = "model")
Delivered(out, l) ==
  [modelId |-> out.m.modelId, object |-> out.m.object, frags |-> out.m.frags,
   vis |-> out.m.vis, meta |-> out.m.meta, mesh |-> out.m.mesh, extra |-> out.m.extra,
   hasDispose |-> out.m.hasDispose, engine |-> load[l].loader, disposed |-> FALSE]

\* the engine registers a model it produced in its FragmentsManager.list
EngineLoaded(out, l) ==
  IF out.kind = "model" /\ out.m.hasDispose /\ load[l].loader # Null
    THEN [engineList EXCEPT ![load[l].loader] = MapSet(@, out.m.modelId, l)]
    ELSE engineList

\* what ifcLoader.load() can settle with: a rejection, null, a model without
\* modelId, or a model
EngineOutcomes(n) ==
  {[kind |-> k, m |-> [modelId |-> NoId, object |-> "absent", frags |-> <<>>,
                       vis |-> <<>>, meta |-> <<>>,
                       hasDispose |-> FALSE]] : k \in {"reject", "null", "noid"}}
  \cup {[kind |-> "model", m |-> m] : m \in EngineModels(n)}

\* loadIfc called directly, up to `await this.ifcLoader.load(...)`
LoadIfcCall(l, bufEmpty, nameEmpty) ==
  /\ load[l].pc = "idle"
  /\ \A k \in 1..(l - 1) : load[k].pc # "idle"
  /\ LET thrown == LoadIfcPrecheck(bufEmpty, nameEmpty) IN
     IF thrown # MsgNone
       THEN /\ load' = [load EXCEPT ![l] = DoneLoad]
            /\ ret' = Rejected("loadIfc", l, NoId, thrown, {})
       ELSE /\ load' = [load EXCEPT ![l] = [IdleLoad EXCEPT !.pc = "engine",
                                              !.via = "direct", !.loader = ifcLoader,
                                              !.before = SceneCount,
                                              !.prog = <<ProgressCall(0, FALSE, FALSE, FALSE)>>]]
            /\ ret' = NoRet
  /\ UNCHANGED <<serviceVars, init, rm, disp, exp, viewerVars, ghostVars, errorVars>>

\* loadIfc that reports 100 as soon as ifcLoader.load() has settled
LoadIfcDoneEarlyProgress(l, out) ==
  /\ load[l].pc = "engine"
  /\ load[l].via = "direct"
  /\ load' = [load EXCEPT ![l] = [DoneLoad EXCEPT !.via = "direct",
                                   !.before = load[l].before,
                                   !.raced = load[l].raced,
                                   !.prog = Append(load[l].prog,
                                                   ProgressCall(100, TRUE, FALSE, FALSE))]]
  /\ engineList' = EngineLoaded(out, l)
  /\ LET thrown == LoadIfcThrows(out) IN
     IF thrown # MsgNone
       THEN /\ ret' = Rejected("loadIfc", l, NoId, LoadFailure(thrown),
                               {Report("loadIfc", "error")})
            /\ model' = IF out.kind = "model"
                          THEN [model EXCEPT ![l] = Delivered(out, l)] ELSE model
            /\ UNCHANGED loadedModels
       ELSE /\ model' = [model EXCEPT ![l] = AddFragmentsToScene(Delivered(out, l))]
            /\ loadedModels' = MapSet(loadedModels, out.m.modelId, l)
            /\ ret' = Resolved("loadIfc", l, out.m.modelId, out.m.modelId, {})
  /\ UNCHANGED <<initialized, components, fragmentsManager, ifcLoader, scene, camera,
                 init, rm, disp, exp, viewerVars, ghostVars, errorVars>>

\* ifcLoader.load() settles for a direct loadIfc call: the rest of loadIfc
LoadIfcDone(l, out) ==
  /\ load[l].pc = "engine"
  /\ load[l].via = "direct"
  /\ load' = [load EXCEPT ![l] = [DoneLoad EXCEPT !.via = "direct",
                                   !.before = load[l].before,
                                   !.raced = load[l].raced,
                                   !.prog = IF LoadIfcThrows(out) # MsgNone
                                              THEN load[l].prog
                                              ELSE Append(load[l].prog,
                                                          ProgressCall(100, TRUE, TRUE, TRUE))]]
  /\ engineList' = EngineLoaded(out, l)
  /\ LET thrown == LoadIfcThrows(out) IN
     IF thrown # MsgNone
       THEN /\ ret' = Rejected("loadIfc", l, NoId, LoadFailure(thrown),
                               {Report("loadIfc", "error")})
            /\ model' = IF out.kind = "model"
                          THEN [model EXCEPT ![l] = Delivered(out, l)] ELSE model
            /\ UNCHANGED loadedModels
       ELSE /\ model' = [model EXCEPT ![l] = AddFragmentsToScene(Delivered(out, l))]
            /\ loadedModels' = MapSet(loadedModels, out.m.modelId, l)
            /\ ret' = Resolved("loadIfc", l, out.m.modelId, out.m.modelId, {})
  /\ UNCHANGED <<initialized, components, fragmentsManager, ifcLoader, scene, camera,
                 init, rm, disp, exp, viewerVars, ghostVars, errorVars>>

\* ------------------------------------------- IfcViewerComponent.loadIfcFile
\* currentModel.update(state => state ? f(state) : state)
UpdateCurrent(f(_)) == IF currentModel.status = "none" THEN currentModel ELSE f(currentModel)

\* a loadIfcFile call other than l is between its start and its end
InProgress(l) ==
  \E k \in Loads \ {l} : load[k].via = "viewer" /\ load[k].pc \notin {"idle", "done"}

\* loadIfcFile after `await this.clearPreviousModel()`, up to
\* `await file.arrayBuffer()`
BeginLoadIfcFile(l, nameEmpty, prevId, prevInst) ==
  /\ isLoading' = TRUE
  /\ currentModel' = [NoCurrent EXCEPT !.status = "loading", !.owner = l]
  /\ load' = [load EXCEPT ![l] = [IdleLoad EXCEPT !.pc = "reading", !.via = "viewer",
                                   !.nameEmpty = nameEmpty,
                                   !.prevId = prevId, !.prevInst = prevInst,
                                   !.overlaps = IF load[l].pc = "idle" THEN InProgress(l)
                                                ELSE load[l].overlaps]]

\* the catch and finally blocks of loadIfcFile; `processed` tells whether
\* loadIfc had resolved and the record had been marked as processing
FailLoadIfcFile(l, msg, reported, processed) ==
  /\ LET Failed(st) == IF processed
                         THEN [st EXCEPT !.status = "failed", !.error = TRUE,
                                         !.progress = 100]
                         ELSE [st EXCEPT !.status = "failed", !.error = TRUE] IN
     currentModel' = UpdateCurrent(Failed)
  /\ errorMessage' = TRUE
  /\ isLoading' = FALSE
  /\ load' = [load EXCEPT ![l] = [DoneLoad EXCEPT !.via = "viewer",
                                   !.prevId = load[l].prevId,
                                   !.prevInst = load[l].prevInst,
                                   !.overlaps = load[l].overlaps,
                                   !.prog = IF processed
                                              THEN Append(load[l].prog,
                                                          ProgressCall(100, TRUE, TRUE, TRUE))
                                              ELSE load[l].prog]]
  /\ ret' = [Resolved("loadIfcFile", l, NoId, "failed",
                       reported \cup {Report("loadIfcFile", "error")})
               EXCEPT !.msg = msg]

\* onFileSelected with a valid file: loadIfcFile through clearPreviousModel,
\* up to the first promise it has to wait for
LoadIfcFileCall(l, nameEmpty) ==
  /\ load[l].pc = "idle"
  /\ \A k \in 1..(l - 1) : load[k].pc # "idle"
  /\ errorMessage' = FALSE
  /\ LET prev == currentModel.fragmentUuid
         m == GetModel(prev) IN
     IF prev = NoId THEN
       /\ BeginLoadIfcFile(l, nameEmpty, NoId, 0)
       /\ ret' = NoRet
       /\ UNCHANGED <<loadedModels, model, filterVars>>
     ELSE IF m = 0 THEN
       /\ FilterClear
       /\ BeginLoadIfcFile(l, nameEmpty, prev, 0)
       /\ ret' = NoRet
       /\ UNCHANGED <<loadedModels, model>>
     ELSE IF model[m].hasDispose THEN
       /\ FilterClear
       /\ model' = [model EXCEPT ![m] = DetachFromParents(model[m])]
       /\ loadedModels' = CacheAfterGet(prev)
       /\ load' = [load EXCEPT ![l] = [IdleLoad EXCEPT !.pc = "clearing", !.via = "viewer",
                                        !.nameEmpty = nameEmpty, !.rmId = prev, !.rmInst = m,
                                        !.prevId = prev, !.prevInst = m,
                                        !.overlaps = InProgress(l)]]
       /\ ret' = NoRet
       /\ UNCHANGED <<currentModel, isLoading>>
     ELSE
       /\ FilterClear
       /\ model' = [model EXCEPT ![m] = DetachFromParents(model[m])]
       /\ loadedModels' = MapDelete(CacheAfterGet(prev), prev)
       /\ BeginLoadIfcFile(l, nameEmpty, prev, m)
       /\ ret' = NoRet
  /\ UNCHANGED <<initialized, components, fragmentsManager, ifcLoader, scene, camera,
                 engineList, init, rm, disp, exp, ghostVars, errorVars>>

\* model.dispose() of the previous model settles: the rest of removeModel and
\* of clearPreviousModel, then loadIfcFile up to `await file.arrayBuffer()`
LoadIfcFileCleared(l, disposeOk) ==
  /\ load[l].pc = "clearing"
  /\ IF disposeOk
       THEN /\ loadedModels' = MapDelete(loadedModels, load[l].rmId)
            /\ engineList' = EngineDisposed(engineList, load[l].rmInst)
            /\ model' = [model EXCEPT ![load[l].rmInst].disposed = TRUE]
            /\ ret' = NoRet
       ELSE /\ ret' = [NoRet EXCEPT !.reported = {Report("removeModel", "warning")}]
            /\ UNCHANGED <<loadedModels, engineList, model>>
  /\ BeginLoadIfcFile(l, load[l].nameEmpty, load[l].prevId, load[l].prevInst)
  /\ UNCHANGED <<initialized, components, fragmentsManager, ifcLoader, scene, camera,
                 init, rm, disp, exp, errorMessage, filterVars, ghostVars, errorVars>>

\* file.arrayBuffer() settles: loadIfc up to `await this.ifcLoader.load(...)`
\* (onFileSelected has rejected empty files, so the buffer is not empty)
LoadIfcFileRead(l, readOk) ==
  /\ load[l].pc = "reading"
  /\ LET thrown == IF readOk THEN LoadIfcPrecheck(FALSE, load[l].nameEmpty) ELSE MsgEngine
         Progress0(st) == [st EXCEPT !.progress = 0] IN
     IF thrown # MsgNone
       THEN FailLoadIfcFile(l, thrown, {}, FALSE)
       ELSE /\ currentModel' = UpdateCurrent(Progress0)
            /\ load' = [load EXCEPT ![l].pc = "engine", ![l].loader = ifcLoader,
                                     ![l].prog = <<ProgressCall(0, FALSE, FALSE, FALSE)>>]
            /\ ret' = NoRet
            /\ UNCHANGED <<isLoading, errorMessage>>
  /\ UNCHANGED <<serviceVars, init, rm, disp, exp, filterVars, ghostVars, errorVars>>

\* ifcLoader.load() settles for a viewer load: the rest of loadIfc, then
\* loadIfcFile up to `await this.extractIfcClasses(uuid)`; postOk tells whether
\* the steps between loadIfc and extractIfcClasses (materials, camera, helpers,
\* statistics) run without throwing
LoadIfcFileLoaded(l, out, postOk) ==
  /\ load[l].pc = "engine"
  /\ load[l].via = "viewer"
  /\ engineList' = EngineLoaded(out, l)
  /\ LET thrown == LoadIfcThrows(out)
         uuid == out.m.modelId
         cache == MapSet(loadedModels, uuid, l)
         Processing(st) == [st EXCEPT !.status = "processing", !.progress = 100] IN
     IF thrown # MsgNone THEN
       /\ model' = IF out.kind = "model"
                     THEN [model EXCEPT ![l] = Delivered(out, l)] ELSE model
       /\ FailLoadIfcFile(l, LoadFailure(thrown), {Report("loadIfc", "error")}, FALSE)
       /\ UNCHANGED <<loadedModels, filterVars>>
     ELSE IF uuid \notin DOMAIN cache \/ ~postOk THEN
       /\ model' = [model EXCEPT ![l] = AddFragmentsToScene(Delivered(out, l))]
       /\ loadedModels' = cache
       /\ FailLoadIfcFile(l, IF uuid \notin DOMAIN cache THEN MsgRetrieve ELSE MsgEngine,
                          {}, TRUE)
       /\ UNCHANGED filterVars
     ELSE
       /\ model' = FixMaterials([model EXCEPT ![l] = AddFragmentsToScene(Delivered(out, l))])
       /\ loadedModels' = cache
       /\ currentModel' = UpdateCurrent(Processing)
       /\ FilterExtract(uuid, AddFragmentsToScene(Delivered(out, l)))
       /\ load' = [load EXCEPT ![l].pc = "processing", ![l].uuid = uuid,
                                ![l].stats = (out.m.object # "absent"),
                                ![l].prog = Append(@, ProgressCall(100, TRUE, TRUE, TRUE))]
       /\ ret' = NoRet
       /\ UNCHANGED <<isLoading, errorMessage>>
  /\ UNCHANGED <<initialized, components, fragmentsManager, ifcLoader, scene, camera,
                 init, rm, disp, exp, ghostVars, errorVars>>

\* extractIfcClasses has returned: the model record is marked loaded
LoadIfcFileFinish(l) ==
  /\ load[l].pc = "processing"
  /\ LET Loaded(st) == [st EXCEPT !.status = "loaded", !.fragmentUuid = load[l].uuid,
                                  !.loadedAt = TRUE, !.stats = load[l].stats] IN
     currentModel' = UpdateCurrent(Loaded)
  /\ isLoading' = FALSE
  /\ load' = [load EXCEPT ![l] = [DoneLoad EXCEPT !.via = "viewer", !.uuid = load[l].uuid,
                                   !.prevId = load[l].prevId,
                                   !.prevInst = load[l].prevInst,
                                   !.overlaps = load[l].overlaps,
                                   !.prog = load[l].prog]]
  /\ ret' = Resolved("loadIfcFile", l, load[l].uuid, "loaded", {})
  /\ UNCHANGED <<serviceVars, init, rm, disp, exp, errorMessage, filterVars, ghostVars, errorVars>>

\* ---------------------------------------------- FragmentsService.removeModel
\* removeModel that empties the cache before it looks the model up
RemoveModelCallClearsFirst(id) ==
  /\ rm = NoCall
  /\ LET m == GetModel(id)
         trip == IF ret.op = "loadIfc" /\ ret.kind = "resolved" /\ ret.id = id
                   THEN ret.who ELSE 0 IN
     IF m = 0 THEN
       /\ ret' = [Resolved("removeModel", 0, id, "false", {}) EXCEPT !.trip = trip]
       /\ loadedModels' = EmptyMap
       /\ UNCHANGED <<model, rm>>
     ELSE IF model[m].hasDispose THEN
       /\ model' = [model EXCEPT ![m] = DetachFromParents(model[m])]
       /\ loadedModels' = CacheAfterGet(id)
       /\ rm' = [id |-> id, inst |-> m, trip |-> trip]
       /\ ret' = NoRet
     ELSE
       /\ model' = [model EXCEPT ![m] = DetachFromParents(model[m])]
       /\ loadedModels' = MapDelete(CacheAfterGet(id), id)
       /\ ret' = [Resolved("removeModel", 0, id, "true", {}) EXCEPT !.trip = trip]
       /\ UNCHANGED rm
  /\ UNCHANGED <<initialized, components, fragmentsManager, ifcLoader, scene, camera,
                 engineList, init, load, disp, exp, viewerVars, ghostVars, errorVars>>

\* removeModel(modelId) up to `await model.dispose()`; a model without a
\* dispose method is removed at once
RemoveModelCall(id) ==
  /\ rm = NoCall
  /\ LET m == GetModel(id)
         trip == IF ret.op = "loadIfc" /\ ret.kind = "resolved" /\ ret.id = id
                   THEN ret.who ELSE 0 IN
     IF m = 0 THEN
       /\ ret' = [Resolved("removeModel", 0, id, "false", {}) EXCEPT !.trip = trip]
       /\ UNCHANGED <<loadedModels, model, rm>>
     ELSE IF model[m].hasDispose THEN
       /\ model' = [model EXCEPT ![m] = DetachFromParents(model[m])]
       /\ loadedModels' = CacheAfterGet(id)
       /\ rm' = [id |-> id, inst |-> m, trip |-> trip]
       /\ ret' = NoRet
     ELSE
       /\ model' = [model EXCEPT ![m] = DetachFromParents(model[m])]
       /\ loadedModels' = MapDelete(CacheAfterGet(id), id)
       /\ ret' = [Resolved("removeModel", 0, id, "true", {}) EXCEPT !.trip = trip]
       /\ UNCHANGED rm
  /\ UNCHANGED <<initialized, components, fragmentsManager, ifcLoader, scene, camera,
                 engineList, init, load, disp, exp, viewerVars, ghostVars, errorVars>>

\* removeModel whose catch block rethrows the disposal error
RemoveModelDoneRethrow(disposeOk) ==
  /\ rm # NoCall
  /\ rm' = NoCall
  /\ IF disposeOk
       THEN /\ loadedModels' = MapDelete(loadedModels, rm.id)
            /\ engineList' = EngineDisposed(engineList, rm.inst)
            /\ model' = [model EXCEPT ![rm.inst].disposed = TRUE]
            /\ ret' = [Resolved("removeModel", 0, rm.id, "true", {}) EXCEPT !.trip = rm.trip]
       ELSE /\ ret' = [Rejected("removeModel", 0, rm.id, MsgEngine,
                                {Report("removeModel", "warning")}) EXCEPT !.trip = rm.trip]
            /\ UNCHANGED <<loadedModels, engineList, model>>
  /\ UNCHANGED <<initialized, components, fragmentsManager, ifcLoader, scene, camera,
                 init, load, disp, exp, viewerVars, ghostVars, errorVars>>

\* model.dispose() settles: the rest of removeModel
RemoveModelDone(disposeOk) ==
  /\ rm # NoCall
  /\ rm' = NoCall
  /\ IF disposeOk
       THEN /\ loadedModels' = MapDelete(loadedModels, rm.id)
            /\ engineList' = EngineDisposed(engineList, rm.inst)
            /\ model' = [model EXCEPT ![rm.inst].disposed = TRUE]
            /\ ret' = [Resolved("removeModel", 0, rm.id, "true", {}) EXCEPT !.trip = rm.trip]
       ELSE /\ ret' = [Resolved("removeModel", 0, rm.id, "false",
                                {Report("removeModel", "warning")}) EXCEPT !.trip = rm.trip]
            /\ UNCHANGED <<loadedModels, engineList, model>>
  /\ UNCHANGED <<initialized, components, fragmentsManager, ifcLoader, scene, camera,
                 init, load, disp, exp, viewerVars, ghostVars, errorVars>>

\* ------------------------------------------- FragmentsService.exportFragment
ExportResult(id, success, msg, n, reported) ==
  [Resolved("exportFragment", 0, id, IF success THEN "success" ELSE "failure", reported)
     EXCEPT !.msg = msg, !.dataLength = n, !.fileSize = n]

\* exportFragment(modelId) up to `await model.getBuffer()`
ExportFragmentCall(id) ==
  /\ exp = NoCall
  /\ LET m == GetModel(id) IN
     IF m = 0
       THEN /\ ret' = ExportResult(id, FALSE, NotFound(id), NoData, {})
            /\ UNCHANGED <<loadedModels, exp>>
       ELSE /\ loadedModels' = CacheAfterGet(id)
            /\ exp' = [id |-> id, inst |-> m, trip |-> 0]
            /\ ret' = NoRet
  /\ UNCHANGED <<initialized, components, fragmentsManager, ifcLoader, scene, camera,
                 engineList, model, init, load, rm, disp, viewerVars, ghostVars, errorVars>>

\* what model.getBuffer() can settle with: a buffer, or a rejection with an
\* Error or with a value that is not an Error
BufferOutcomes ==
  {[kind |-> "buffer", byteLength |-> n] : n \in 0..MaxBytes}
  \cup {[kind |-> k, byteLength |-> NoData] : k \in {"error", "nonError"}}

\* exportFragment without its catch block
ExportFragmentDoneNoCatch(out) ==
  /\ exp # NoCall
  /\ exp' = NoCall
  /\ ret' = IF out.kind = "buffer"
              THEN ExportResult(exp.id, TRUE, MsgNone, out.byteLength, {})
              ELSE Rejected("exportFragment", 0, exp.id,
                            IF out.kind = "error" THEN MsgEngine ELSE MsgUnknown, {})
  /\ UNCHANGED <<serviceVars, init, load, rm, disp, viewerVars, ghostVars, errorVars>>

\* model.getBuffer() settles: the rest of exportFragment
ExportFragmentDone(out) ==
  /\ exp # NoCall
  /\ exp' = NoCall
  /\ ret' = IF out.kind = "buffer"
              THEN ExportResult(exp.id, TRUE, MsgNone, out.byteLength, {})
              ELSE ExportResult(exp.id, FALSE,
                                IF out.kind = "error" THEN MsgEngine ELSE MsgUnknown,
                                NoData, {Report("exportFragment", "error")})
  /\ UNCHANGED <<serviceVars, init, load, rm, disp, viewerVars, ghostVars, errorVars>>

\* --------------------------------------------------- FragmentsService.dispose
\* the statements of dispose after `await Promise.all(disposePromises)`;
\* ifcLoader.dispose() or components.dispose() may throw
DisposeFinish(cache, loaderOk, componentsOk) ==
  /\ disp' = [pc |-> "idle", pending |-> {}]
  /\ IF (ifcLoader # Null /\ ~loaderOk) \/ (components # Null /\ ~componentsOk)
       THEN /\ loadedModels' = cache
            /\ ret' = Resolved("dispose", 0, NoId, "failed", {Report("dispose", "warning")})
            /\ UNCHANGED <<initialized, components, fragmentsManager, ifcLoader,
                           scene, camera, initCompleted>>
       ELSE /\ loadedModels' = EmptyMap
            /\ fragmentsManager' = Null
            /\ ifcLoader' = Null
            /\ components' = Null
            /\ scene' = FALSE
            /\ camera' = FALSE
            /\ initialized' = FALSE
            /\ initCompleted' = 0
            /\ ret' = Resolved("dispose", 0, NoId, "disposed", {})

\* dispose() up to `await Promise.all(disposePromises)`: every cached model
\* goes through removeModel up to its `await model.dispose()`
DisposeCall(loaderOk, componentsOk) ==
  /\ disp.pc = "idle"
  /\ IF ~initialized THEN
       /\ ret' = Resolved("dispose", 0, NoId, "noop", {})
       /\ UNCHANGED <<serviceVars, disp, initCompleted, load>>
     ELSE
       LET ids == DOMAIN loadedModels
           waiting == {id \in ids : model[loadedModels[id]].hasDispose}
           cache == [id \in waiting |-> loadedModels[id]] IN
       /\ model' = [l \in Loads |->
                      IF l \in GetAllModels THEN DetachFromParents(model[l]) ELSE model[l]]
       /\ load' = [l \in Loads |->
                     IF load[l].pc = "engine" THEN [load[l] EXCEPT !.raced = TRUE]
                     ELSE load[l]]
       /\ UNCHANGED engineList
       /\ IF waiting = {}
            THEN DisposeFinish(cache, loaderOk, componentsOk)
            ELSE /\ disp' = [pc |-> "models",
                               pending |-> {[id |-> id, inst |-> loadedModels[id], trip |-> 0] : id \in waiting}]
                 /\ loadedModels' = cache
                 /\ ret' = NoRet
                 /\ UNCHANGED <<initialized, components, fragmentsManager, ifcLoader,
                                scene, camera, initCompleted>>
  /\ UNCHANGED <<init, rm, exp, viewerVars, enginesCreated, errorVars>>

\* one model.dispose() awaited by dispose() settles: the rest of that
\* removeModel; when it was the last one, the rest of dispose
DisposeModelDone(p, disposeOk, loaderOk, componentsOk) ==
  /\ disp.pc = "models"
  /\ p \in disp.pending
  /\ LET cache == IF disposeOk THEN MapDelete(loadedModels, p.id) ELSE loadedModels
         rest == disp.pending \ {p} IN
     /\ engineList' = IF disposeOk THEN EngineDisposed(engineList, p.inst) ELSE engineList
     /\ model' = IF disposeOk THEN [model EXCEPT ![p.inst].disposed = TRUE] ELSE model
     /\ IF rest = {}
          THEN DisposeFinish(cache, loaderOk, componentsOk)
          ELSE /\ disp' = [disp EXCEPT !.pending = rest]
               /\ loadedModels' = cache
               /\ ret' = [NoRet EXCEPT !.reported =
                             IF disposeOk THEN {} ELSE {Report("removeModel", "warning")}]
               /\ UNCHANGED <<initialized, components, fragmentsManager, ifcLoader,
                              scene, camera, initCompleted>>
  /\ UNCHANGED <<init, load, rm, exp, viewerVars, enginesCreated, errorVars>>

\* ----------------------------------------------- IfcFilterService methods
\* what the filter's methods never touch
FilterFrame ==
  UNCHANGED <<initialized, components, fragmentsManager, ifcLoader, scene, camera,
              engineList, callVars, currentModel, isLoading, errorMessage, ghostVars, errorVars>>

\* extractClasses whose catch block rethrows
ExtractCaughtRethrow(id) ==
  Rejected("extractClasses", 0, id, <<"Test", "error">>, {})

\* the catch block of extractClasses: `return []`
ExtractCaught(id) ==
  [Resolved("extractClasses", 0, id, "caught", {}) EXCEPT !.classes = EmptyMap]

\* extractClasses(modelId); a missing model returns [] before ifcClasses is set.
\* err is where the engine's objects throw: "lookup" in fragmentsManager.list.get
\* (reached on a cache miss), "items" in model.items.forEach after j fragments
ExtractClasses(id, err, j) ==
  /\ filterModelId' = id
  /\ IF err = "lookup"
       THEN /\ id \notin DOMAIN loadedModels /\ fragmentsManager # Null
            /\ j = 0
            /\ fragmentClassMap' = EmptyMap
            /\ ret' = ExtractCaught(id)
            /\ UNCHANGED <<ifcClasses, handed, loadedModels>>
       ELSE /\ loadedModels' = CacheAfterGet(id)
            /\ IF GetModel(id) = 0
                 THEN /\ err = "none" /\ j = 0
                      /\ fragmentClassMap' = EmptyMap
                      /\ ret' = [Resolved("extractClasses", 0, id, "empty", {}) EXCEPT
                                   !.classes = EmptyMap]
                      /\ UNCHANGED <<ifcClasses, handed>>
                 ELSE LET fcm == FragmentClasses(model[GetModel(id)]) IN
                      IF err = "items"
                        THEN /\ j < Len(fcm)
                             /\ fragmentClassMap' = SubSeq(fcm, 1, j)
                             /\ ret' = ExtractCaught(id)
                             /\ UNCHANGED <<ifcClasses, handed>>
                        ELSE /\ j = 0
                             /\ fragmentClassMap' = fcm
                             /\ ifcClasses' = ClassMapOf(fcm)
                             /\ handed' = AfterSignalSet(handed)
                             /\ ret' = [Resolved("extractClasses", 0, id, "list", {}) EXCEPT
                                          !.classes = ClassMapOf(fcm), !.newMap = TRUE,
                                          !.afterExtract = TRUE]
  /\ UNCHANGED model
  /\ FilterFrame

\* mesh.visible of every fragment of every model
MeshVisibility == [l \in Loads |-> model[l].vis]

\* the class map and the mesh visibility before a visibility call
FilterPre == [classes |-> ifcClasses, vis |-> MeshVisibility]

\* the outcome of a filter call that changed nothing
FilterNoop(op, className) ==
  /\ ret' = [Resolved(op, 0, className, "-", {}) EXCEPT
               !.afterExtract = ret.afterExtract]
  /\ UNCHANGED <<serviceVars, filterVars>>

\* the update of ifcClasses and the applyClassVisibility call shared by
\* toggleClassVisibility and setClassVisibility
FilterSet(op, className, visible) ==
  /\ ifcClasses' = [ifcClasses EXCEPT ![className].visible = visible]
  /\ handed' = AfterSignalUpdate(handed, className, visible)
  /\ model' = SetMeshVisible(model, AppliedTo(className), visible)
  /\ loadedModels' = IF filterModelId = NoId THEN loadedModels
                     ELSE CacheAfterGet(filterModelId)
  /\ ret' = [Resolved(op, 0, className, "-", {}) EXCEPT
               !.newMap = TRUE, !.written = AppliedTo(className),
               !.pre = IF op = "toggleClassVisibility" THEN FilterPre ELSE NoRet.pre,
               !.afterExtract = ret.afterExtract]
  /\ UNCHANGED <<initialized, components, fragmentsManager, ifcLoader, scene, camera,
                 engineList, filterModelId, fragmentClassMap>>

\* toggleClassVisibility(className)
ToggleClassVisibility(className) ==
  /\ IF className \notin DOMAIN ifcClasses
       THEN FilterNoop("toggleClassVisibility", className)
       ELSE FilterSet("toggleClassVisibility", className, ~ifcClasses[className].visible)
  /\ FilterFrame

\* setClassVisibility without the test `classInfo.visible === visible`
SetClassVisibilityAlways(className, visible) ==
  /\ IF className \notin DOMAIN ifcClasses
       THEN FilterNoop("setClassVisibility", className)
       ELSE FilterSet("setClassVisibility", className, visible)
  /\ FilterFrame

\* setClassVisibility(className, visible)
SetClassVisibility(className, visible) ==
  /\ IF className \notin DOMAIN ifcClasses \/ ifcClasses[className].visible = visible
       THEN FilterNoop("setClassVisibility", className)
       ELSE FilterSet("setClassVisibility", className, visible)
  /\ FilterFrame

\* a forEach that ends after the first class it has changed
RECURSIVE SetEachUntilChanged(_, _, _)
SetEachUntilChanged(S, st, visible) ==
  IF S = {} \/ st.newMap THEN st
  ELSE LET c == CHOOSE x \in S : TRUE
           next == IF st.classes[c].visible = visible THEN st
                   ELSE [classes |-> [st.classes EXCEPT ![c].visible = visible],
                         written |-> st.written \cup AppliedTo(c),
                         newMap |-> TRUE,
                         handed |-> AfterSignalUpdate(st.handed, c, visible)] IN
       SetEachUntilChanged(S \ {c}, next, visible)

\* the forEach of showAllClasses / hideAllClasses: setClassVisibility(c, visible)
\* for the classes in S, one after the other, starting from st
RECURSIVE SetEach(_, _, _)
SetEach(S, st, visible) ==
  IF S = {} THEN st
  ELSE LET c == CHOOSE x \in S : TRUE
           next == IF st.classes[c].visible = visible THEN st
                   ELSE [classes |-> [st.classes EXCEPT ![c].visible = visible],
                         written |-> st.written \cup AppliedTo(c),
                         newMap |-> TRUE,
                         handed |-> AfterSignalUpdate(st.handed, c, visible)] IN
       SetEach(S \ {c}, next, visible)

SetAllClasses(op, visible) ==
  LET end == SetEach(DOMAIN ifcClasses,
                     [classes |-> ifcClasses, written |-> {}, newMap |-> FALSE,
                      handed |-> handed], visible) IN
  /\ ifcClasses' = end.classes
  /\ handed' = end.handed
  /\ model' = SetMeshVisible(model, end.written, visible)
  /\ loadedModels' = IF end.newMap /\ filterModelId # NoId
                       THEN CacheAfterGet(filterModelId) ELSE loadedModels
  /\ ret' = [Resolved(op, 0, NoId, "-", {}) EXCEPT
               !.newMap = end.newMap, !.written = end.written, !.pre = FilterPre,
               !.afterExtract = ret.afterExtract]
  /\ UNCHANGED <<initialized, components, fragmentsManager, ifcLoader, scene, camera,
                 engineList, filterModelId, fragmentClassMap>>
  /\ FilterFrame

\* showAllClasses()
ShowAllClasses == SetAllClasses("showAllClasses", TRUE)

\* hideAllClasses()
HideAllClasses == SetAllClasses("hideAllClasses", FALSE)

\* clear()
Clear ==
  /\ FilterClear
  /\ ret' = [Resolved("clear", 0, NoId, "-", {}) EXCEPT !.newMap = TRUE]
  /\ UNCHANGED serviceVars
  /\ FilterFrame

\* the caller keeps the array that extractClasses has just returned: its
\* elements are the IfcClassInfo objects of the Map stored in the signal
KeepReturnedClasses ==
  /\ ret.op = "extractClasses" /\ ret.value = "list"
  /\ handed' = [kind |-> "list", classes |-> ret.classes, isCurrent |-> FALSE,
                shared |-> DOMAIN ret.classes]
  /\ ret' = [ret EXCEPT !.newMap = FALSE]
  /\ UNCHANGED <<serviceVars, filterModelId, ifcClasses, fragmentClassMap>>
  /\ FilterFrame

\* the caller reads the ifcClasses signal and keeps the Map it gets
ReadIfcClasses ==
  /\ handed' = [kind |-> "map", classes |-> ifcClasses, isCurrent |-> TRUE,
                shared |-> DOMAIN ifcClasses]
  /\ ret' = [Resolved("ifcClasses", 0, NoId, "-", {}) EXCEPT
               !.classes = ifcClasses, !.afterExtract = ret.afterExtract]
  /\ UNCHANGED <<serviceVars, filterModelId, ifcClasses, fragmentClassMap>>
  /\ FilterFrame

\* model.items as the class filter reads it: a fragment has no mesh, a mesh
\* without parent, or a hidden mesh that already has a parent; fragment.name
\* may name IfcWall and mesh.userData.ifcClass may name IfcSpace (both are
\* set on a mesh without parent only, and a fragment without mesh has neither)
FilterFragments ==
  {f \in {[mesh |-> m, name |-> n, ifcClass |-> t] :
            m \in {"none", "other", "absent"},
            n \in {NoClass, "IfcWall"}, t \in {NoClass, "IfcSpace"}} :
     /\ f.mesh = "absent" => f.name = NoClass /\ f.ifcClass = NoClass
     /\ f.mesh = "other" => f.name = NoClass \/ f.ifcClass = NoClass}

FilterFragmentRank(f) ==
  4 * FragRank(f.mesh) + (IF f.name = NoClass THEN 0 ELSE 2)
    + (IF f.ifcClass = NoClass THEN 0 ELSE 1)

\* the models ifcLoader.load() hands to the class filter, with at most n
\* fragments (items is a Map: the order of the fragments is no input)
FilterModels(n) ==
  {[modelId |-> id, object |-> "absent",
    frags |-> [k \in DOMAIN f |-> f[k].mesh],
    vis |-> [k \in DOMAIN f |-> f[k].mesh = "none"],
    meta |-> [k \in DOMAIN f |-> [NoMeta EXCEPT !.name = f[k].name,
                                                 !.ifcClass = f[k].ifcClass]],
    mesh |-> [k \in DOMAIN f |-> IF f[k].mesh = "absent" THEN NoGeometry ELSE PlainMesh],
    extra |-> <<>>,
    hasDispose |-> FALSE] :
     id \in {"a"},
     f \in {g \in UNION {[1..k -> FilterFragments] : k \in 0..n} :
              \A k \in 1..(Len(g) - 1) :
                 FilterFragmentRank(g[k]) <= FilterFragmentRank(g[k + 1])}}

\* a fragment as addFragmentsToScene finds it: no mesh, or a mesh with or
\* without parent that is visible or hidden and frustum-culled or not
AttachFragments ==
  {[state |-> "absent", visible |-> FALSE, frustumCulled |-> TRUE]}
  \cup {[state |-> st, visible |-> v, frustumCulled |-> c] :
          st \in {"none", "other"}, v \in BOOLEAN, c \in BOOLEAN}

AttachFragmentRank(f) ==
  4 * FragRank(f.state) + (IF f.visible THEN 2 ELSE 0) + (IF f.frustumCulled THEN 1 ELSE 0)

\* the models ifcLoader.load() hands to addFragmentsToScene, with at most n
\* fragments
AttachModels(n) ==
  {[modelId |-> id, object |-> "absent",
    frags |-> [k \in DOMAIN f |-> f[k].state],
    vis |-> [k \in DOMAIN f |-> f[k].visible],
    meta |-> [k \in DOMAIN f |-> NoMeta],
    mesh |-> [k \in DOMAIN f |->
                IF f[k].state = "absent" THEN NoGeometry
                ELSE [PlainMesh EXCEPT !.frustumCulled = f[k].frustumCulled]],
    extra |-> <<>>,
    hasDispose |-> FALSE] :
     id \in ModelIds,
     f \in {g \in UNION {[1..k -> AttachFragments] : k \in 0..n} :
              \A k \in 1..(Len(g) - 1) :
                 AttachFragmentRank(g[k]) <= AttachFragmentRank(g[k + 1])}}

\* the metadata of a fragment handed to extractIfcClassFromFragment: each of
\* the eight fields it reads names a class of its own or none; without a mesh
\* there is no mesh.userData
DeriveFragments ==
  {f \in {[mesh |-> m,
           meta |-> [name |-> n, id |-> i, ifcClass |-> t, userType |-> ut,
                     userName |-> un, types |-> ty, fragments |-> fr, fragmentId |-> fi]] :
            m \in {"none", "absent"},
            n \in {NoClass, "IfcWall"}, i \in {NoClass, "IfcDoor"},
            t \in {NoClass, "IfcSpace"}, ut \in {NoClass, "IfcBeam"},
            un \in {NoClass, "IfcRoof"}, ty \in {NoClass, "IfcSlab"},
            fr \in {NoClass, "IfcStair"}, fi \in {NoClass, "IfcPlate"}} :
     f.mesh = "absent" =>
       f.meta.ifcClass = NoClass /\ f.meta.userType = NoClass /\ f.meta.userName = NoClass}

\* the models ifcLoader.load() hands to the class filter when the class of a
\* fragment is derived: one fragment, since the class of a fragment is derived
\* from that fragment alone
DeriveModels ==
  {[modelId |-> "a", object |-> "absent",
    frags |-> <<f.mesh>>,
    vis |-> <<f.mesh = "none">>,
    meta |-> <<f.meta>>,
    mesh |-> <<IF f.mesh = "absent" THEN NoGeometry ELSE PlainMesh>>,
    extra |-> <<>>,
    hasDispose |-> FALSE] : f \in DeriveFragments}

\* ------------------------------------- FragmentsService.getModelStatistics
InObject(m) == m.inObject

\* the meshes object.traverse visits below model.object: the fragment meshes
\* that are descendants of it and its other meshes
Tree(mo) ==
  IF mo.object = "absent" THEN <<>> ELSE SelectSeq(mo.mesh, InObject) \o mo.extra

\* calculateBoundingBox(object) # null
HasBoundingBox(tree) == \E k \in DOMAIN tree : tree[k].geometry

\* estimateMemoryUsage(object): the position attribute holds 3 floats of 4
\* bytes per vertex, the index 2 bytes per entry
EstimateMemoryUsage(tree) ==
  SumSeq([k \in DOMAIN tree |->
            IF tree[k].geometry
              THEN (IF tree[k].positions # NoData THEN 12 * tree[k].positions ELSE 0)
                   + (IF tree[k].index # NoData THEN 2 * tree[k].index ELSE 0)
              ELSE 0])

\* Math.round(memoryBytes / 1024 / 1024 * 100) / 100, in hundredths of a MB
MemoryUsage(bytes) == (200 * bytes + 1048576) \div 2097152

\* calculateModelStatistics(object); faceCount is summed in thirds of a face
\* and floored at the end
CalculateModelStatistics(tree) ==
  [isNull |-> FALSE,
   meshCount |-> Len(tree),
   vertexCount |-> SumSeq([k \in DOMAIN tree |->
                     IF tree[k].geometry /\ tree[k].positions # NoData
                       THEN tree[k].positions ELSE 0]),
   faceCount |-> SumSeq([k \in DOMAIN tree |->
                   IF ~tree[k].geometry THEN 0
                   ELSE IF tree[k].index # NoData THEN tree[k].index
                   ELSE IF tree[k].positions # NoData THEN tree[k].positions
                   ELSE 0]) \div 3,
   fragmentCount |-> Cardinality({k \in DOMAIN tree :
                                    tree[k].geometry /\ tree[k].instanced}),
   boundingBox |-> HasBoundingBox(tree),
   memoryUsage |-> 0]

\* getModelStatistics that does not test model.object
ModelStatisticsNoObjectTest(id) ==
  IF GetModel(id) = 0 THEN NoRet.stats
  ELSE LET tree == Tree(model[GetModel(id)]) IN
       [CalculateModelStatistics(tree) EXCEPT
          !.memoryUsage = MemoryUsage(EstimateMemoryUsage(tree))]

\* the value getModelStatistics(modelId) returns
ModelStatistics(id) ==
  IF GetModel(id) = 0 \/ model[GetModel(id)].object = "absent" THEN NoRet.stats
  ELSE LET tree == Tree(model[GetModel(id)]) IN
       [CalculateModelStatistics(tree) EXCEPT
          !.memoryUsage = MemoryUsage(EstimateMemoryUsage(tree))]

\* getModelStatistics(modelId), with the caching getModel does
GetModelStatistics(id) ==
  /\ loadedModels' = CacheAfterGet(id)
  /\ ret' = [Resolved("getModelStatistics", 0, id,
                      IF ModelStatistics(id).isNull THEN "null" ELSE "stats", {})
               EXCEPT !.stats = ModelStatistics(id)]
  /\ UNCHANGED <<initialized, components, fragmentsManager, ifcLoader, scene, camera,
                 engineList, model, callVars, viewerVars, ghostVars, errorVars>>

\* the meshes the engine delivers: without geometry, with 4 vertices and no
\* index, an InstancedMesh of 3 vertices and 6 indices, and a geometry without
\* position attribute
MeshKinds ==
  {NoGeometry,
   PlainMesh,
   [NoGeometry EXCEPT !.geometry = TRUE, !.positions = 3, !.index = 6, !.instanced = TRUE],
   [NoGeometry EXCEPT !.geometry = TRUE]}

MeshRank(m) ==
  IF m.geometry THEN m.positions + 2 + (IF m.instanced THEN 10 ELSE 0) ELSE 0

\* a fragment of a delivered model: no mesh, or a mesh without parent, or a
\* mesh with a parent that is or is not below model.object
StatsFragments ==
  {[state |-> "absent", mesh |-> NoGeometry]}
  \cup {f \in {[state |-> st, mesh |-> [m EXCEPT !.inObject = b]] :
                  st \in {"none", "other"}, m \in MeshKinds, b \in BOOLEAN} :
          f.mesh.inObject => f.state = "other"}

StatsFragmentRank(f) ==
  (IF f.state = "none" THEN 0 ELSE IF f.state = "other" THEN 100 ELSE 200)
  + 2 * MeshRank(f.mesh) + (IF f.mesh.inObject THEN 1 ELSE 0)

\* the models the engine delivers to the statistics: fragments in one order
\* only, meshes below model.object only when there is a model.object
StatsModels(n, x) ==
  {mo \in
    {[modelId |-> "a", object |-> o,
      frags |-> [k \in DOMAIN f |-> f[k].state],
      vis |-> [k \in DOMAIN f |-> f[k].state # "absent"],
      meta |-> [k \in DOMAIN f |-> NoMeta],
      mesh |-> [k \in DOMAIN f |-> f[k].mesh],
      extra |-> e,
      hasDispose |-> FALSE] :
       o \in {"absent", "none"},
       f \in {g \in UNION {[1..k -> StatsFragments] : k \in 0..n} :
                \A k \in 1..(Len(g) - 1) :
                   StatsFragmentRank(g[k]) <= StatsFragmentRank(g[k + 1])},
       e \in {g \in UNION {[1..k -> {[m EXCEPT !.inObject = TRUE] : m \in MeshKinds}] :
                             k \in 0..x} :
                \A k \in 1..(Len(g) - 1) : MeshRank(g[k]) <= MeshRank(g[k + 1])}} :
     mo.object = "absent" =>
       (mo.extra = <<>> /\ \A k \in DOMAIN mo.mesh : ~mo.mesh[k].inObject)}

\* ------------------------------------------------------ fixSceneMaterials
\* IfcViewerComponent.fixSceneMaterials(): fixMaterials(this.scene)
FixSceneMaterials ==
  /\ model' = FixMaterials(model)
  /\ ret' = [Resolved("fixMaterials", 0, NoId, "-", {}) EXCEPT !.fixed = FixedCount(model)]
  /\ UNCHANGED <<initialized, components, fragmentsManager, ifcLoader, scene, camera,
                 loadedModels, engineList, callVars, viewerVars, ghostVars, errorVars>>

MaterialKinds ==
  {[visible |-> v, side |-> sd, transparent |-> t, opacity |-> o] :
     v \in BOOLEAN, sd \in {"front", "back", "double"}, t \in BOOLEAN, o \in {0, 100}}

MaterialRank(mt) ==
  (IF mt.visible THEN 0 ELSE 1) + 2 * (IF mt.side = "front" THEN 0
                                        ELSE IF mt.side = "back" THEN 1 ELSE 2)
  + 6 * (IF mt.transparent THEN 1 ELSE 0) + 12 * (IF mt.opacity = 0 THEN 0 ELSE 1)

\* the materials mesh.material arrays are made of
ArrayMaterialKinds ==
  {DefaultMaterial,
   [DefaultMaterial EXCEPT !.visible = FALSE, !.side = "back"],
   [DefaultMaterial EXCEPT !.side = "back"],
   [DefaultMaterial EXCEPT !.side = "double", !.transparent = TRUE, !.opacity = 0]}

\* mesh.material: missing, one material, or an array of two
MeshMaterials ==
  {<<>>} \cup {<<mt>> : mt \in MaterialKinds}
  \cup {q \in [1..2 -> ArrayMaterialKinds] : MaterialRank(q[1]) <= MaterialRank(q[2])}

MeshMaterialsRank(q) ==
  IF Len(q) = 0 THEN 0
  ELSE IF Len(q) = 1 THEN 1 + MaterialRank(q[1])
  ELSE 100 + 24 * MaterialRank(q[1]) + MaterialRank(q[2])

\* the models the engine delivers to fixMaterials: fragments whose mesh has no
\* parent, or, without fragments, a model.object with at most one mesh
MaterialModels(n) ==
  {[modelId |-> "a", object |-> "none",
    frags |-> [k \in DOMAIN f |-> "none"],
    vis |-> [k \in DOMAIN f |-> TRUE],
    meta |-> [k \in DOMAIN f |-> NoMeta],
    mesh |-> [k \in DOMAIN f |-> [PlainMesh EXCEPT !.materials = f[k]]],
    extra |-> <<>>,
    hasDispose |-> FALSE] :
     f \in {g \in UNION {[1..k -> MeshMaterials] : k \in 0..n} :
              \A k \in 1..(Len(g) - 1) :
                 MeshMaterialsRank(g[k]) <= MeshMaterialsRank(g[k + 1])}}
  \cup
  {[modelId |-> "a", object |-> "none", frags |-> <<>>, vis |-> <<>>, meta |-> <<>>,
    mesh |-> <<>>,
    extra |-> <<[PlainMesh EXCEPT !.inObject = TRUE, !.materials = q, !.visible = v]>>,
    hasDispose |-> FALSE] : q \in MeshMaterials, v \in BOOLEAN}

\* -------------------------------------------------------- ErrorHandlerService
MAX_STORED_ERRORS == 50

\* latestError = null
NoError == [id |-> 0, severity |-> "-", message |-> MsgNone]

\* createAppError(error, severity) for an Error object; the id is the one
\* generateErrorId hands out next
CreateAppError(error, severity) ==
  [id |-> errorCount + 1, severity |-> severity, message |-> error]

\* the first n entries of a list (Array.prototype.slice(0, n))
Slice(q, n) == SubSeq(q, 1, IF Len(q) < n THEN Len(q) ELSE n)

\* addToErrorList without `.slice(0, this.MAX_STORED_ERRORS)`
AddToErrorListNoSlice(appError) == <<appError>> \o errors

\* addToErrorList(appError): the new value of errors$
AddToErrorList(appError) == Slice(<<appError>> \o errors, MAX_STORED_ERRORS)

\* the getter latestError
LatestError == IF Len(errors) > 0 THEN errors[1] ELSE NoError

\* handleError(error, severity)
HandleError(error, severity) ==
  /\ errorCount < MaxErrors
  /\ errors' = AddToErrorList(CreateAppError(error, severity))
  /\ errorCount' = errorCount + 1
  /\ ret' = [Resolved("handleError", 0, NoId, "-", {}) EXCEPT !.errorId = errorCount + 1]
  /\ UNCHANGED <<serviceVars, callVars, viewerVars, ghostVars>>

\* clearErrors()
ClearErrors ==
  /\ errors' = <<>>
  /\ ret' = Resolved("clearErrors", 0, NoId, "-", {})
  /\ UNCHANGED <<serviceVars, callVars, viewerVars, ghostVars, errorCount>>

\* ------------------------------------------------------------ specifications
Initialize(i) ==
  \/ \E sceneArg \in BOOLEAN, cameraArg \in BOOLEAN : InitializeCall(i, sceneArg, cameraArg)
  \/ \E fetched \in BOOLEAN, flagSet \in BOOLEAN : InitFetchDone(i, fetched, flagSet)
  \/ \E ok \in BOOLEAN : InitSetupDone(i, ok)

LoadIfc(n, frags) ==
  \/ \E l \in 1..n, bufEmpty \in BOOLEAN, nameEmpty \in BOOLEAN :
        LoadIfcCall(l, bufEmpty, nameEmpty)
  \/ \E l \in 1..n, out \in EngineOutcomes(frags) : LoadIfcDone(l, out)

LoadIfcFile(frags) ==
  \/ \E l \in Loads, nameEmpty \in BOOLEAN : LoadIfcFileCall(l, nameEmpty)
  \/ \E l \in Loads, ok \in BOOLEAN : LoadIfcFileCleared(l, ok)
  \/ \E l \in Loads, ok \in BOOLEAN : LoadIfcFileRead(l, ok)
  \/ \E l \in Loads, out \in EngineOutcomes(frags), postOk \in BOOLEAN :
        LoadIfcFileLoaded(l, out, postOk)
  \/ \E l \in Loads : LoadIfcFileFinish(l)

RemoveModel ==
  \/ \E id \in ModelIds : RemoveModelCall(id)
  \/ \E ok \in BOOLEAN : RemoveModelDone(ok)

ExportFragment ==
  \/ \E id \in ModelIds : ExportFragmentCall(id)
  \/ \E out \in BufferOutcomes : ExportFragmentDone(out)

Dispose ==
  \/ \E loaderOk \in BOOLEAN, componentsOk \in BOOLEAN : DisposeCall(loaderOk, componentsOk)
  \/ \E p \in disp.pending, ok \in BOOLEAN, loaderOk \in BOOLEAN, componentsOk \in BOOLEAN :
        DisposeModelDone(p, ok, loaderOk, componentsOk)

\* the service as a library: one caller initializes it, loads through loadIfc,
\* removes and exports models
Next ==
  \/ Initialize(1)
  \/ LoadIfc(MaxDirectLoads, MaxFrags)
  \/ RemoveModel
  \/ ExportFragment

Spec == Init /\ [][Next]_vars

\* the viewer: files are loaded through loadIfcFile, one after another or
\* overlapping
NextViewer ==
  \/ Initialize(1)
  \/ LoadIfcFile(MaxViewerFrags)

SpecViewer == Init /\ [][NextViewer]_vars

\* the service's own lifecycle: concurrent initialize() callers, a load, dispose()
NextLifecycle ==
  \/ \E i \in InitSlots : Initialize(i)
  \/ LoadIfc(1, MaxViewerFrags)
  \/ Dispose

SpecLifecycle == Init /\ [][NextLifecycle]_vars

IfcFilter ==
  \/ \E err \in {"none", "lookup", "items"}, j \in 0..(MaxFilterFrags - 1) :
       ExtractClasses("a", err, j)
  \/ \E className \in ClassNames : ToggleClassVisibility(className)
  \/ \E className \in ClassNames, visible \in BOOLEAN : SetClassVisibility(className, visible)
  \/ ShowAllClasses
  \/ HideAllClasses
  \/ Clear

\* the class filter over one model loaded through the service and removed from it
NextFilter ==
  \/ InitializeCall(1, TRUE, TRUE)
  \/ InitFetchDone(1, TRUE, TRUE)
  \/ InitSetupDone(1, TRUE)
  \/ LoadIfcCall(1, FALSE, FALSE)
  \/ \E m \in FilterModels(MaxFilterFrags) : LoadIfcDone(1, [kind |-> "model", m |-> m])
  \/ RemoveModelCall("a")
  \/ IfcFilter

SpecFilter == Init /\ [][NextFilter]_vars

\* getModelStatistics over one model loaded through an initialized service
NextStats ==
  \/ InitializeCall(1, TRUE, TRUE)
  \/ InitFetchDone(1, TRUE, TRUE)
  \/ InitSetupDone(1, TRUE)
  \/ LoadIfcCall(1, FALSE, FALSE)
  \/ \E m \in StatsModels(MaxStatFrags, MaxExtraMeshes) :
       LoadIfcDone(1, [kind |-> "model", m |-> m])
  \/ \E id \in ModelIds : GetModelStatistics(id)
  \/ RemoveModelCall("a")

SpecStats == Init /\ [][NextStats]_vars

\* fixMaterials(scene) over one loaded model, whose meshes the class filter may
\* have hidden
NextMaterials ==
  \/ InitializeCall(1, TRUE, TRUE)
  \/ InitFetchDone(1, TRUE, TRUE)
  \/ InitSetupDone(1, TRUE)
  \/ LoadIfcCall(1, FALSE, FALSE)
  \/ \E m \in MaterialModels(MaxMaterialFrags) : LoadIfcDone(1, [kind |-> "model", m |-> m])
  \/ ExtractClasses("a", "none", 0)
  \/ HideAllClasses
  \/ FixSceneMaterials

SpecMaterials == Init /\ [][NextMaterials]_vars

\* the stored error list under handleError and clearErrors
NextErrors ==
  \/ HandleError(<<"Test", "error">>, "error")
  \/ ClearErrors

SpecErrors == Init /\ [][NextErrors]_vars

\* IfcFilterService.extractClasses deriving the class of every fragment of
\* the model that FragmentsService.loadIfc has loaded
NextDerive ==
  \/ InitializeCall(1, TRUE, TRUE)
  \/ InitFetchDone(1, TRUE, TRUE)
  \/ InitSetupDone(1, TRUE)
  \/ LoadIfcCall(1, FALSE, FALSE)
  \/ \E m \in DeriveModels : LoadIfcDone(1, [kind |-> "model", m |-> m])
  \/ ExtractClasses("a", "none", 0)

SpecDerive == Init /\ [][NextDerive]_vars

\* a caller of the class filter that holds on to what it was handed
NextSnapshot ==
  \/ InitializeCall(1, TRUE, TRUE)
  \/ InitFetchDone(1, TRUE, TRUE)
  \/ InitSetupDone(1, TRUE)
  \/ LoadIfcCall(1, FALSE, FALSE)
  \/ \E m \in FilterModels(MaxSnapshotFrags) : LoadIfcDone(1, [kind |-> "model", m |-> m])
  \/ ExtractClasses("a", "none", 0)
  \/ KeepReturnedClasses
  \/ ReadIfcClasses
  \/ \E className \in ClassNames : ToggleClassVisibility(className)
  \/ \E className \in ClassNames, visible \in BOOLEAN : SetClassVisibility(className, visible)
  \/ ShowAllClasses
  \/ HideAllClasses

SpecSnapshot == Init /\ [][NextSnapshot]_vars

\* dispose() racing loadIfc: the service is initialized, models are loaded
\* through loadIfc, and dispose() is called at any moment
NextRace ==
  \/ InitializeCall(1, TRUE, TRUE)
  \/ InitFetchDone(1, TRUE, TRUE)
  \/ InitSetupDone(1, TRUE)
  \/ \E l \in Loads : LoadIfcCall(l, FALSE, FALSE)
  \/ \E l \in Loads, m \in EngineModels(MaxViewerFrags) :
        LoadIfcDone(l, [kind |-> "model", m |-> m])
  \/ Dispose

SpecRace == Init /\ [][NextRace]_vars

\* FragmentsService.loadIfc attaching the fragments of the model to the scene
NextAttach ==
  \/ InitializeCall(1, TRUE, TRUE)
  \/ InitFetchDone(1, TRUE, TRUE)
  \/ InitSetupDone(1, TRUE)
  \/ LoadIfcCall(1, FALSE, FALSE)
  \/ \E m \in AttachModels(MaxAttachFrags) : LoadIfcDone(1, [kind |-> "model", m |-> m])

SpecAttach == Init /\ [][NextAttach]_vars

\* --------------------------------------------------------------- properties

\* C1: getAllModels() never holds more than one model that has a drawable
\* attached to the scene, whatever loads have been made and however each ended.
C1_AtMostOneAttachedModel ==
  Cardinality({m \in GetAllModels : InScene(model[m])}) <= 1

\* C2: a load requested through the viewer while a model is active reaches the
\* engine only after that model is out of the scene and out of the cache, and
\* when the load has completed the first model's id no longer leads to the
\* first model and only the second model has drawables in the scene.
C2_PreviousEvictedBeforeLoad ==
  \A l \in Loads :
    (load[l].via = "viewer" /\ load[l].prevInst # 0) =>
      LET first == load[l].prevInst IN
      /\ load[l].pc = "engine" =>
            /\ ~InScene(model[first])
            /\ first \notin GetAllModels
      /\ (ret.op = "loadIfcFile" /\ ret.who = l /\ ret.value = "loaded") =>
            /\ GetModel(load[l].prevId) # first
            /\ \A m \in Loads : InScene(model[m]) => m = l

\* C3: when removeModel(id) is called right after the loadIfc call that
\* returned id, then once it has returned the scene holds as many drawables as
\* before the load and getModel(id) finds nothing.
C3_LoadRemoveRoundTrip ==
  (ret.op = "removeModel" /\ ret.trip # 0) =>
    /\ SceneCount = load[ret.trip].before
    /\ GetModel(ret.id) = 0

\* C4: on an initialized service, loadIfc with an empty buffer rejects with a
\* message mentioning "empty", and with a non-empty buffer and an empty name
\* with a message mentioning "name"; the engine is not called and the cache,
\* the models and the scene stay as they were.
C4_ValidationRejects ==
  [][\A l \in Loads, bufEmpty \in BOOLEAN, nameEmpty \in BOOLEAN :
       (EnsureInitialized /\ (bufEmpty \/ nameEmpty)
        /\ LoadIfcCall(l, bufEmpty, nameEmpty)) =>
         /\ ret'.op = "loadIfc" /\ ret'.kind = "rejected"
         /\ Contains(ret'.msg, IF bufEmpty THEN <<"empty">> ELSE <<"name">>)
         /\ load'[l].pc # "engine"
         /\ UNCHANGED <<loadedModels, engineList, model>>]_vars

C4_Witness ==
  /\ initialized
  /\ ret.op = "loadIfc" /\ ret.kind = "rejected"
  /\ ret.msg = MsgInvalidName

\* C5: whenever removeModel has reported a disposal failure (severity
\* warning), the id it was called with is no longer a key of the cache.
C5_EvictedDespiteDisposalFailure ==
  (ret.op = "removeModel" /\ Report("removeModel", "warning") \in ret.reported) =>
    ret.id \notin DOMAIN loadedModels

\* C6: removeModel always resolves; it resolves to false, after reporting to
\* the error handler, when model.dispose() fails, and to true, with the id gone
\* from the cache, when the model has no dispose method.
C6_RemoveModelNeverRejects ==
  [][/\ ret'.op = "removeModel" => ret'.kind = "resolved"
     /\ RemoveModelDone(FALSE) =>
          /\ ret'.kind = "resolved" /\ ret'.value = "false"
          /\ ret'.reported # {}
     /\ \A id \in ModelIds :
          (GetModel(id) # 0 /\ ~model[GetModel(id)].hasDispose /\ RemoveModelCall(id)) =>
            /\ ret'.kind = "resolved" /\ ret'.value = "true"
            /\ id \notin DOMAIN loadedModels']_vars

C6_Witness ==
  /\ ret.op = "removeModel" /\ ret.value = "false"
  /\ Report("removeModel", "warning") \in ret.reported

\* C7: removeModel on an id under which getModel finds no model resolves to
\* false and changes neither the cache nor any model's place in the scene graph.
C7_RemoveUnknownIsNoop ==
  [][\A id \in ModelIds :
       (GetModel(id) = 0 /\ RemoveModelCall(id)) =>
         /\ ret'.kind = "resolved" /\ ret'.value = "false"
         /\ UNCHANGED <<loadedModels, model>>]_vars

C7_Witness ==
  /\ ret.op = "removeModel" /\ ret.value = "false" /\ ret.reported = {}
  /\ DOMAIN loadedModels # {}
  /\ ret.id \notin DOMAIN loadedModels
  /\ SceneCount > 0

C9_SingleEngineInitialization ==
  [][/\ initCompleted' <= 1
     /\ \A i \in InitSlots, sceneArg \in BOOLEAN, cameraArg \in BOOLEAN :
          InitializeCall(i, sceneArg, cameraArg) =>
            /\ initialized =>
                 /\ ret'.kind = "resolved"
                 /\ UNCHANGED <<components, fragmentsManager, ifcLoader, enginesCreated>>
            /\ (\E j \in InitSlots \ {i} : init[j] # "idle") =>
                 UNCHANGED <<components, fragmentsManager, enginesCreated>>]_vars

\* C10: on a service that is not initialized, initialize() without a scene or
\* without a camera rejects with "Scene and camera are required" and creates
\* no engine; and whenever an initialize() call has just failed, isInitialized
\* is false.
C10_FailedInitializeLeavesUninitialized ==
  [][/\ \A i \in InitSlots, sceneArg \in BOOLEAN, cameraArg \in BOOLEAN :
          (~initialized /\ (~sceneArg \/ ~cameraArg)
           /\ InitializeCall(i, sceneArg, cameraArg)) =>
            /\ ret'.kind = "rejected"
            /\ Contains(ret'.msg, <<"Scene", "and", "camera", "are", "required">>)
            /\ UNCHANGED <<components, fragmentsManager, ifcLoader, enginesCreated>>
     /\ (ret'.op = "initialize" /\ ret'.kind = "rejected") => ~initialized']_vars

\* C11: loadIfc called while the service is not initialized, or right after a
\* dispose() call has resolved, rejects with a "not initialized" error; the
\* engine is not called, no progress is reported, and the cache, the models
\* and the scene stay as they were.
C11_NotInitializedRejects ==
  [][\A l \in Loads, bufEmpty \in BOOLEAN, nameEmpty \in BOOLEAN :
       ((~initialized \/ ret.op = "dispose") /\ LoadIfcCall(l, bufEmpty, nameEmpty)) =>
         /\ ret'.op = "loadIfc" /\ ret'.kind = "rejected"
         /\ Contains(ret'.msg, <<"not", "initialized">>)
         /\ load'[l].pc # "engine"
         /\ load'[l].prog = <<>>
         /\ UNCHANGED <<loadedModels, engineList, model>>]_vars

\* C12: dispose() always resolves, and when it has resolved the service is
\* not initialized and its cache is empty; when it was called on an
\* initialized service it also holds no engine reference any more (components,
\* fragmentsManager, ifcLoader), whether or not disposing a model or the
\* engine components failed.
C12_DisposeResets ==
  ret.op = "dispose" =>
    /\ ret.kind = "resolved"
    /\ ~initialized
    /\ DOMAIN loadedModels = {}
    /\ ret.value # "noop" =>
         (components = Null /\ fragmentsManager = Null /\ ifcLoader = Null)

C14_FailedLoadLeavesNothing ==
  ((ret.op = "loadIfc" /\ ret.kind = "rejected")
   \/ (ret.op = "loadIfcFile" /\ ret.value = "failed")) =>
    /\ ret.who \notin GetAllModels
    /\ ~InScene(model[ret.who])

\* C15: the status of a model record (the record one loadIfcFile call stored in
\* currentModel) only moves loading -> processing -> loaded, or from loading
\* or processing to failed; a record that is loaded or failed keeps its status.
C15_StatusTransitions ==
  [][(currentModel.status # "none" /\ currentModel'.owner = currentModel.owner) =>
       \/ currentModel'.status = currentModel.status
       \/ <<currentModel.status, currentModel'.status>> \in
            {<<"loading", "processing">>, <<"processing", "loaded">>,
             <<"loading", "failed">>, <<"processing", "failed">>}]_vars

\* C16: right after an extractClasses call that found its model, the class
\* IfcSpace, if the model has it, is hidden and every other class is visible,
\* in the returned list and in the stored class map.
C16_SpaceHiddenByDefault ==
  (ret.op = "extractClasses" /\ ret.value = "list") =>
    /\ \A c \in DOMAIN ret.classes : ret.classes[c].visible = (c # "IfcSpace")
    /\ \A c \in DOMAIN ifcClasses : ifcClasses[c].visible = (c # "IfcSpace")

\* C17: right after an extractClasses call that found its model, every
\* fragment of the model has exactly one class, which is IfcElement when none
\* of its fields names a class; each returned class counts the fragments
\* assigned to it, and the counts add up to the number of fragments.
C17_EveryElementClassified ==
  (ret.op = "extractClasses" /\ ret.value = "list") =>
    LET mo == model[GetModel(ret.id)] IN
    /\ DOMAIN fragmentClassMap = DOMAIN mo.frags
    /\ \A k \in DOMAIN mo.frags :
         /\ fragmentClassMap[k] \in ClassNames
         /\ (/\ mo.meta[k].name = NoClass /\ mo.meta[k].id = NoClass
             /\ mo.meta[k].types = NoClass
             /\ (mo.meta[k].ifcClass = NoClass \/ mo.frags[k] = "absent"))
              => fragmentClassMap[k] = "IfcElement"
    /\ DOMAIN ret.classes = {fragmentClassMap[k] : k \in DOMAIN fragmentClassMap}
    /\ \A c \in DOMAIN ret.classes :
         ret.classes[c].count =
           Cardinality({k \in DOMAIN fragmentClassMap : fragmentClassMap[k] = c})
    /\ SumCounts(ret.classes, DOMAIN ret.classes) = Len(mo.frags)

C17_Witness ==
  /\ ret.op = "extractClasses" /\ ret.value = "list"
  /\ Len(model[GetModel(ret.id)].frags) = 2
  /\ DOMAIN ret.classes = {"IfcElement", "IfcWall"}

\* C18: setClassVisibility(name, v) on a known class whose visible flag is
\* already v changes nothing: the ifcClasses signal keeps its Map, the flags
\* stay as they are and no mesh.visible is assigned.
C18_SetSameVisibilityIsNoop ==
  [][\A c \in ClassNames, v \in BOOLEAN :
       (c \in DOMAIN ifcClasses /\ ifcClasses[c].visible = v /\ SetClassVisibility(c, v)) =>
         /\ UNCHANGED <<ifcClasses, model>>
         /\ ~ret'.newMap
         /\ ret'.written = {}]_vars

C18_Witness ==
  /\ ret.op = "setClassVisibility"
  /\ ret.id \in DOMAIN ifcClasses
  /\ ~ret.newMap
  /\ AppliedTo(ret.id) # {}

\* C19: toggleClassVisibility on a known class flips that class's flag and
\* changes visibleClassCount by exactly one; and when the call before it was a
\* toggle of the same class, the class flags and every mesh.visible are again
\* what they were before that first toggle.
C19_ToggleTwiceRestores ==
  [][\A c \in ClassNames :
       (c \in DOMAIN ifcClasses /\ ToggleClassVisibility(c)) =>
         /\ ifcClasses'[c].visible = ~ifcClasses[c].visible
         /\ (VisibleClassCount' = VisibleClassCount + 1
             \/ VisibleClassCount' = VisibleClassCount - 1)
         /\ (ret.op = "toggleClassVisibility" /\ ret.id = c /\ ret.newMap) =>
              /\ ifcClasses' = ret.pre.classes
              /\ MeshVisibility' = ret.pre.vis]_vars

\* C20: right after showAllClasses() every known class is visible and
\* visibleClassCount equals totalClassCount; right after hideAllClasses() every
\* known class is hidden and visibleClassCount is 0.
C20_ShowHideAll ==
  /\ ret.op = "showAllClasses" =>
       /\ \A c \in DOMAIN ifcClasses : ifcClasses[c].visible
       /\ VisibleClassCount = TotalClassCount
  /\ ret.op = "hideAllClasses" =>
       /\ \A c \in DOMAIN ifcClasses : ~ifcClasses[c].visible
       /\ VisibleClassCount = 0

C20_Witness ==
  /\ ret.op = "hideAllClasses"
  /\ TotalClassCount = 2
  /\ \E c \in DOMAIN ret.pre.classes : ret.pre.classes[c].visible
  /\ \E c \in DOMAIN ret.pre.classes : ~ret.pre.classes[c].visible
  /\ VisibleClassCount = 0

\* the classifier state clear() leaves
Cleared == filterModelId = NoId /\ fragmentClassMap = EmptyMap /\ ifcClasses = EmptyMap

ZeroStats ==
  [totalClasses |-> 0, visibleClasses |-> 0, hiddenClasses |-> 0,
   totalElements |-> 0, visibleElements |-> 0]

\* C21: clear() leaves the classifier with zero classes and getFilterStats()
\* all zero; and from that state, which only extractClasses leaves,
\* toggleClassVisibility, setClassVisibility, showAllClasses and hideAllClasses
\* keep it as it is, set no class flag and assign no mesh.visible.
C21_ClearedUntilExtract ==
  [][/\ Clear => (Cleared' /\ TotalClassCount' = 0 /\ GetFilterStats' = ZeroStats)
     /\ (/\ Cleared
         /\ \/ \E c \in ClassNames : ToggleClassVisibility(c)
            \/ \E c \in ClassNames, v \in BOOLEAN : SetClassVisibility(c, v)
            \/ ShowAllClasses
            \/ HideAllClasses)
          => /\ Cleared' /\ GetFilterStats' = ZeroStats
             /\ UNCHANGED model
             /\ ~ret'.newMap /\ ret'.written = {}
     /\ (Cleared /\ ~Cleared') =>
          (\E err \in {"none", "lookup", "items"}, j \in 0..(MaxFilterFrags - 1) :
              ExtractClasses("a", err, j))]_vars

\* showAllClasses() after clear(), on a loaded model one of whose attached
\* meshes was hidden through its class before the clear
C21_Witness ==
  /\ ret.op = "showAllClasses"
  /\ Cleared
  /\ GetModel("a") # 0
  /\ \E k \in DOMAIN model[GetModel("a")].frags :
       model[GetModel("a")].frags[k] = "scene" /\ ~model[GetModel("a")].vis[k]

\* C22: in every state getFilterStats() returns totalClasses = visibleClasses
\* + hiddenClasses, totalElements = the sum of the counts of all classes and
\* visibleElements = the sum of the counts of the visible classes.
C22_FilterStatsSums ==
  LET CountOf(c) == IF c \in DOMAIN ifcClasses THEN ifcClasses[c].count ELSE 0
      VisibleCountOf(c) ==
        IF c \in DOMAIN ifcClasses /\ ifcClasses[c].visible THEN ifcClasses[c].count ELSE 0
      st == GetFilterStats IN
  /\ st.totalClasses = st.visibleClasses + st.hiddenClasses
  /\ st.totalElements = CountOf("IfcWall") + CountOf("IfcSpace") + CountOf("IfcElement")
  /\ st.visibleElements =
       VisibleCountOf("IfcWall") + VisibleCountOf("IfcSpace") + VisibleCountOf("IfcElement")

\* two classes, one hidden, over two elements
C22_Witness ==
  /\ GetFilterStats.totalClasses = 2
  /\ GetFilterStats.hiddenClasses = 1
  /\ GetFilterStats.totalElements = 2
  /\ GetFilterStats.visibleElements = 1

\* C23: extractClasses never rejects; for a model id that is not loaded, for a
\* model without fragments and for an error thrown while extracting it
\* resolves to an empty list.
C23_ExtractNeverRejects ==
  ret.op = "extractClasses" =>
    /\ ret.kind = "resolved"
    /\ (\/ GetModel(ret.id) = 0
        \/ ret.value = "caught"
        \/ Len(model[GetModel(ret.id)].frags) = 0) => ret.classes = EmptyMap

\* an error thrown by model.items.forEach after the first fragment of two
C23_Witness ==
  /\ ret.op = "extractClasses" /\ ret.value = "caught"
  /\ GetModel(ret.id) # 0
  /\ Len(fragmentClassMap) = 1

\* the meshes of a model's asset: those of its fragments and the further
\* ones below model.object
DrawableCount(mo) ==
  Cardinality({k \in DOMAIN mo.frags : mo.frags[k] # "absent"}) + Len(mo.extra)
AllHaveGeometry(mo) ==
  /\ \A k \in DOMAIN mo.frags : mo.frags[k] # "absent" => mo.mesh[k].geometry
  /\ \A k \in DOMAIN mo.extra : mo.extra[k].geometry
PositionCount(m) == IF m.positions # NoData THEN m.positions ELSE 0
PositionSum(mo) ==
  SumSeq([k \in DOMAIN mo.frags |->
            IF mo.frags[k] # "absent" THEN PositionCount(mo.mesh[k]) ELSE 0])
  + SumSeq([k \in DOMAIN mo.extra |-> PositionCount(mo.extra[k])])

\* C24: getModelStatistics(id) for a loaded model all of whose N meshes have a
\* geometry returns meshCount = N and vertexCount = the sum of the counts of
\* the meshes' position attributes.
C24_StatisticsCountEveryMesh ==
  (/\ ret.op = "getModelStatistics"
   /\ GetModel(ret.id) # 0
   /\ AllHaveGeometry(model[GetModel(ret.id)])) =>
     /\ ~ret.stats.isNull
     /\ ret.stats.meshCount = DrawableCount(model[GetModel(ret.id)])
     /\ ret.stats.vertexCount = PositionSum(model[GetModel(ret.id)])

\* C25: getModelStatistics(id) returns null exactly when getModel finds no
\* model or the model has no model.object; with a model.object that has no
\* mesh below it, it returns statistics whose counts are all 0.
C25_NullOnlyWithoutObject ==
  ret.op = "getModelStatistics" =>
    /\ ret.stats.isNull <=>
         (GetModel(ret.id) = 0 \/ model[GetModel(ret.id)].object = "absent")
    /\ (/\ GetModel(ret.id) # 0
        /\ model[GetModel(ret.id)].object # "absent"
        /\ Tree(model[GetModel(ret.id)]) = <<>>) =>
          /\ ~ret.stats.isNull
          /\ ret.stats.meshCount = 0 /\ ret.stats.vertexCount = 0
          /\ ret.stats.faceCount = 0 /\ ret.stats.fragmentCount = 0

\* statistics of a loaded model that has a model.object and no mesh below it
C25_Witness ==
  /\ ret.op = "getModelStatistics"
  /\ GetModel(ret.id) # 0
  /\ model[GetModel(ret.id)].object # "absent"
  /\ Tree(model[GetModel(ret.id)]) = <<>>
  /\ ~ret.stats.isNull

\* the materials of the meshes that are in the scene
SceneMaterials ==
  UNION {UNION {{model[l].mesh[k].materials[i] : i \in DOMAIN model[l].mesh[k].materials} :
                  k \in {j \in DOMAIN model[l].mesh : FragmentInScene(model[l], j)}}
           \cup UNION {{model[l].extra[k].materials[i] :
                          i \in DOMAIN model[l].extra[k].materials} :
                         k \in {j \in DOMAIN model[l].extra : model[l].object = "scene"}} :
         l \in Loads}

\* C26: right after fixMaterials(scene) every material of every mesh in the
\* scene is visible, double-sided and not transparent with opacity 0, and
\* every mesh in the scene is visible.
C26_FixMaterialsForcesAll ==
  ret.op = "fixMaterials" =>
    /\ \A mt \in SceneMaterials :
         mt.visible /\ mt.side = "double" /\ ~(mt.transparent /\ mt.opacity = 0)
    /\ \A l \in Loads :
         /\ \A k \in DOMAIN model[l].frags : FragmentInScene(model[l], k) => model[l].vis[k]
         /\ model[l].object = "scene" =>
              \A k \in DOMAIN model[l].extra : model[l].extra[k].visible

\* C27: a handleError call leaves a list of at most 50 errors with the error
\* just handled first and the earlier ones behind it in their old order, the
\* oldest being dropped when the list was full; latestError is then the error
\* just handled, and it is null when the list is empty.
C27_ErrorListBounded ==
  [][/\ HandleError(<<"Test", "error">>, "error") =>
          /\ Len(errors') <= 50
          /\ errors'[1].id = ret'.errorId
          /\ LatestError' = errors'[1]
          /\ Tail(errors') = (IF Len(errors) = 50 THEN SubSeq(errors, 1, 49) ELSE errors)
          /\ \A k \in 1..(Len(errors') - 1) : errors'[k].id > errors'[k + 1].id
     /\ (errors' = <<>>) => (LatestError' = NoError)]_vars

\* the 51st error arrives at a full list: the first one is gone
C27_Witness ==
  /\ ret.op = "handleError"
  /\ ret.errorId = 51
  /\ Len(errors) = 50
  /\ errors[50].id = 2

\* C28: the model record has loadedAt and stats only while its status is
\* Loaded, error only while its status is Failed, and fragmentUuid only while
\* its status is Loaded.
C28_RecordFieldsMatchStatus ==
  /\ (currentModel.loadedAt \/ currentModel.stats) => currentModel.status = "loaded"
  /\ currentModel.error => currentModel.status = "failed"
  /\ currentModel.fragmentUuid # NoId => currentModel.status = "loaded"

\* C29: toggleClassVisibility(c) and setClassVisibility(c, v) leave the set of
\* classes, the name, count and color of c and every other class as they are,
\* and change mesh.visible only of meshes of the filtered model whose fragment
\* is mapped to c; for a class that is not known they change nothing and
\* return normally.
C29_VisibilityFrame ==
  [][\A c \in ClassNames :
       (ToggleClassVisibility(c) \/ \E v \in BOOLEAN : SetClassVisibility(c, v)) =>
         /\ ret'.kind = "resolved"
         /\ DOMAIN ifcClasses' = DOMAIN ifcClasses
         /\ \A d \in DOMAIN ifcClasses :
              IF d = c
                THEN [ifcClasses'[d] EXCEPT !.visible = TRUE]
                       = [ifcClasses[d] EXCEPT !.visible = TRUE]
                ELSE ifcClasses'[d] = ifcClasses[d]
         /\ \A l \in Loads : \A k \in DOMAIN model[l].vis :
              model'[l].vis[k] # model[l].vis[k] =>
                /\ l = GetModel(filterModelId)
                /\ k \in DOMAIN fragmentClassMap /\ fragmentClassMap[k] = c
         /\ \A l \in Loads : [model'[l] EXCEPT !.vis = <<>>] = [model[l] EXCEPT !.vis = <<>>]
         /\ UNCHANGED <<fragmentClassMap, filterModelId>>
         /\ c \notin DOMAIN ifcClasses => UNCHANGED <<ifcClasses, model>>]_vars

\* a toggle that hid the mesh of one class of a model that has a visible mesh
\* of another class
C29_Witness ==
  /\ ret.op = "toggleClassVisibility" /\ ret.newMap
  /\ TotalClassCount = 2
  /\ AppliedTo(ret.id) # {}
  /\ ~ifcClasses[ret.id].visible
  /\ \E d \in DOMAIN ifcClasses : d # ret.id /\ ifcClasses[d].visible /\ AppliedTo(d) # {}

\* C30: after an extractClasses call that returned the classes of its model,
\* and after any toggleClassVisibility, setClassVisibility, showAllClasses and
\* hideAllClasses calls that follow it, every fragment of the model that has a
\* mesh has mesh.visible equal to the visible flag of its class.
C30_MeshFollowsClassFlag ==
  ret.afterExtract =>
    LET mo == model[GetModel(filterModelId)] IN
    \A k \in DOMAIN mo.frags :
      mo.frags[k] # "absent" => mo.vis[k] = ifcClasses[fragmentClassMap[k]].visible

\* C31: after every extractClasses call, whatever it returned, the class map
\* and the reverse index describe the same model: the classes are exactly the
\* classes the reverse index maps a fragment to, each with the number of
\* fragments mapped to it as its count (so the counts sum to the size of the
\* reverse index), and after a call that returned an empty list for a missing
\* model or a failed extraction no class is left.
C31_ClassMapMatchesIndex ==
  ret.op = "extractClasses" =>
    /\ SumCounts(ifcClasses, DOMAIN ifcClasses) = Cardinality(DOMAIN fragmentClassMap)
    /\ DOMAIN ifcClasses = {fragmentClassMap[k] : k \in DOMAIN fragmentClassMap}
    /\ \A c \in DOMAIN ifcClasses :
         ifcClasses[c].count = Cardinality({k \in DOMAIN fragmentClassMap :
                                              fragmentClassMap[k] = c})
    /\ ret.value \in {"empty", "caught"} => ifcClasses = EmptyMap

\* C32: after an extractClasses call that returned the classes of its model,
\* every fragment that carries an explicit class tag is classified by the tag,
\* even when its name matches another class; without a tag it is classified
\* by its name, else by its identifier, else (when mesh.userData names no
\* class either) by its type table.
C32_StrategiesInStatedOrder ==
  ret.op = "extractClasses" /\ ret.value = "list" =>
    LET mo == model[GetModel(filterModelId)] IN
    \A k \in DOMAIN mo.frags :
      LET f == mo.meta[k]
          tag == IF mo.frags[k] # "absent" THEN f.ifcClass ELSE NoClass
          userData == mo.frags[k] # "absent"
                        /\ (f.userType # NoClass \/ f.userName # NoClass) IN
      /\ tag # NoClass => fragmentClassMap[k] = tag
      /\ tag = NoClass /\ f.name # NoClass => fragmentClassMap[k] = f.name
      /\ tag = NoClass /\ f.name = NoClass /\ f.id # NoClass => fragmentClassMap[k] = f.id
      /\ tag = NoClass /\ f.name = NoClass /\ f.id = NoClass /\ ~userData
           /\ f.types # NoClass => fragmentClassMap[k] = f.types

\* C33: the faceCount getModelStatistics reports is the sum, over the meshes
\* visited below model.object that have a geometry, of index.count / 3 for a
\* mesh with an index and of positions.count / 3 truncated to an integer for
\* a mesh without one, and it is an integer (the sum floored).
C33_FaceCountPerMesh ==
  ret.op = "getModelStatistics" /\ ~ret.stats.isNull =>
    LET tree == Tree(model[GetModel(ret.id)])
        thirds == [k \in DOMAIN tree |->
                     IF ~tree[k].geometry THEN 0
                     ELSE IF tree[k].index # NoData THEN tree[k].index
                     ELSE IF tree[k].positions # NoData
                       THEN 3 * (tree[k].positions \div 3)
                     ELSE 0] IN
    ret.stats.faceCount = SumSeq(thirds) \div 3

\* C34: a loadIfc call whose model arrives while the service has a scene
\* resolves, also when a fragment has no mesh; every fragment mesh that had no
\* parent is then a child of the scene, visible and frustum-culled, and the
\* scene has gained exactly one child per such mesh; a mesh that had a parent
\* keeps its parent, its visible flag and its frustumCulled flag, and a
\* fragment without mesh stays without one.
C34_AttachParentlessMeshes ==
  [][\A m \in AttachModels(MaxAttachFrags) :
       LoadIfcDone(1, [kind |-> "model", m |-> m]) /\ scene =>
         /\ ret'.kind = "resolved"
         /\ DOMAIN model'[1].frags = DOMAIN m.frags
         /\ \A k \in DOMAIN m.frags :
              /\ m.frags[k] = "none" =>
                   /\ model'[1].frags[k] = "scene"
                   /\ model'[1].vis[k]
                   /\ model'[1].mesh[k].frustumCulled
              /\ m.frags[k] = "other" =>
                   /\ model'[1].frags[k] = "other"
                   /\ model'[1].vis[k] = m.vis[k]
                   /\ model'[1].mesh[k] = m.mesh[k]
              /\ m.frags[k] = "absent" => model'[1].frags[k] = "absent"
         /\ SceneCount' = SceneCount
                            + Cardinality({k \in DOMAIN m.frags : m.frags[k] = "none"})]_vars

\* a load that attached one mesh and left alone a hidden mesh that is not
\* frustum-culled and already had a parent
C34_Witness ==
  /\ ret.op = "loadIfc" /\ ret.kind = "resolved"
  /\ \E k \in DOMAIN model[1].frags :
       model[1].frags[k] = "scene" /\ model[1].vis[k] /\ model[1].mesh[k].frustumCulled
  /\ \E k \in DOMAIN model[1].frags :
       model[1].frags[k] = "other" /\ ~model[1].vis[k] /\ ~model[1].mesh[k].frustumCulled

\* C35: isLoading is true exactly while a loadIfcFile call is in progress,
\* that is, has been started and has not yet come to its end.
C35_LoadingWhileInProgress ==
  isLoading <=> \E l \in Loads : load[l].via = "viewer" /\ load[l].pc \notin {"idle", "done"}

\* C36: once every loadIfcFile call has come to its end, and one of them was
\* started while another was in progress, the cache holds at most one model,
\* no other model has a drawable in the scene, and when a model is cached the
\* fragmentUuid of the viewer's record is its id.
C36_OverlappingLoadsLeaveOneModel ==
  (/\ \A l \in Loads : load[l].pc \in {"idle", "done"}
   /\ \E l \in Loads : load[l].overlaps) =>
    /\ Cardinality(DOMAIN loadedModels) <= 1
    /\ \A m \in Loads : InScene(model[m]) => m \in GetAllModels
    /\ currentModel.fragmentUuid # NoId => currentModel.fragmentUuid \in DOMAIN loadedModels
    /\ loadedModels # EmptyMap => currentModel.fragmentUuid \in DOMAIN loadedModels

\* C37: once dispose() and every loadIfc call have settled, and dispose() was
\* called while a loadIfc call awaited the engine, the cache is empty, no
\* drawable of a model of such a call is attached to the scene, and the service
\* is not initialized (as long as initialize() has not been called again).
C37_DisposeDuringLoadLeavesNothing ==
  (/\ \A l \in Loads : load[l].pc \in {"idle", "done"}
   /\ disp.pc = "idle"
   /\ enginesCreated = 1
   /\ \E l \in Loads : load[l].raced) =>
    /\ loadedModels = EmptyMap
    /\ \A l \in Loads : load[l].raced => ~InScene(model[l])
    /\ ~initialized

\* C38: a class list that extractClasses returned, or a class map read from
\* the ifcClasses signal, that a caller holds is left as it is by every later
\* toggleClassVisibility, setClassVisibility, showAllClasses and
\* hideAllClasses call.
C38_HandedValuesAreSnapshots ==
  [][((\E c \in ClassNames :
          ToggleClassVisibility(c) \/ \E v \in BOOLEAN : SetClassVisibility(c, v))
       \/ ShowAllClasses \/ HideAllClasses)
      => handed'.classes = handed.classes]_vars

====
